---- MODULE Spec2Model ----
(***************************************************************************)
(* Model of the cross-account board migration of fizzy-cli                 *)
(* (`fizzy migrate board`, commands/migrate.go = src/unnamed/part_004).    *)
(*                                                                         *)
(* The command is one synchronous procedure.  Every network call it makes  *)
(* is one step of the model; the outcome of the call (error, the shape of  *)
(* the reply) is chosen by the environment.  `calls` is the trace of the   *)
(* requests sent, `stderr` counts the warnings written to the side         *)
(* channel, `payload` is what printSuccess received.                       *)
(***************************************************************************)
EXTENDS Integers, Sequences, FiniteSets, TLC

\* ---------------------------------------------------------------- bounds
MaxCols == 2
MaxCards == 2
MaxFailures == 2   \* requests whose outcome is not the regular one

\* ------------------------------------------------------- generic helpers
Range(s) == {s[i] : i \in DOMAIN s}

SeqsUpTo(S, n) == UNION {[1..k -> S] : k \in 0..n}

NoField == "<absent>"

\* getStringField: a field that is absent (or not a string) reads as ""
getStringField(m, key) == IF m[key] = NoField THEN "" ELSE m[key]

\* --------------------------------------------------------------- slugs
\* An account slug is a sequence of characters; "/" is the only one that
\* the code looks at.
TrimSlash(slug) == IF Len(slug) > 0 /\ Head(slug) = "/" THEN Tail(slug) ELSE slug

SrcSlug == <<"s">>
TgtSlug == <<"t">>

\* what --from / --to / the token may be
FromValues == {<<>>, SrcSlug}
ToValues == {<<>>, SrcSlug, TgtSlug}
TokenValues == {"", "tok"}

\* replies of GET /my/identity.json: the list of the slugs of the accounts
IdentityReplies ==
    { <<>>, << <<"/", "s">> >>, << <<"t">> >>,
      << <<"/", "s">>, <<"/", "t">> >> }

\* verifyAccountAccess, the loop over the accounts: which of the two were found
foundAccount(accounts_, wanted) ==
    \E i \in DOMAIN accounts_ :
        TrimSlash(accounts_[i]) = wanted \/ accounts_[i] = wanted

verifyAccountAccess_sourceOnly(accounts_, sourceAccount, targetAccount) ==
    IF ~foundAccount(accounts_, sourceAccount) THEN "source" ELSE ""

\* verifyAccountAccess: "" when both are found, otherwise the account named
\* by the error (the source is tested first)
verifyAccountAccess(accounts_, sourceAccount, targetAccount) ==
    IF ~foundAccount(accounts_, sourceAccount) THEN "source"
    ELSE IF ~foundAccount(accounts_, targetAccount) THEN "target"
    ELSE ""

\* -------------------------------------------------------------- columns
\* A column of the source list: id, and the two optional fields the code
\* inspects.  kind is a string or absent; pseudo is a boolean or absent.
KindValues == {NoField, "real", "pseudo"}
PseudoValues == {NoField, "true", "false"}

SourceColIDs == <<"c1", "c2", "c3">>

\* the column lists the source may return: position i holds the column
\* with id SourceColIDs[i]
ColumnLists ==
    UNION { { [i \in 1..n |-> [id |-> SourceColIDs[i],
                               kind |-> ks[i], pseudo |-> ps[i]]] :
                ks \in [1..n -> KindValues], ps \in [1..n -> PseudoValues] } :
            n \in 0..MaxCols }

\* the column list of the fixed board used with the card pool
BaseColumns ==
    << [id |-> "c1", kind |-> NoField, pseudo |-> NoField],
       [id |-> "c2", kind |-> "real", pseudo |-> "false"] >>

\* the column lists explored: every list when no optional feature is
\* requested, the base board otherwise
ColumnListsFor(o) ==
    IF o.includeComments \/ o.includeSteps \/ o.includeImages
    THEN {BaseColumns} ELSE ColumnLists \cup {BaseColumns}

\* runMigrateBoard, the loop over sourceColumns: its two `continue` tests
skipColumn_kindOnly(col) == col.kind # NoField /\ col.kind # "real"

skipColumn(col) ==
    \/ (col.kind # NoField /\ col.kind # "real")
    \/ (col.pseudo # NoField /\ col.pseudo = "true")

countRealColumns_kindOnly(columns) ==
    Cardinality({i \in DOMAIN columns :
                   ~(columns[i].kind # NoField /\ columns[i].kind # "real")})

\* countRealColumns: the elements that pass its own two `continue` tests,
\* on kind and on pseudo
countRealColumns(columns) ==
    Cardinality({i \in DOMAIN columns :
                   /\ ~(columns[i].kind # NoField /\ columns[i].kind # "real")
                   /\ ~(columns[i].pseudo # NoField /\ columns[i].pseudo = "true")})

\* ids the target assigns to created columns, in creation order
TargetColIDs == <<"tc1", "tc2", "tc3", "tc4">>


\* ---------------------------------------------------------------- HTML
\* A rich-text body is a sequence of pieces: text, or one
\* <action-text-attachment> element with its sgid and filename attributes
\* and the anchors of its content.  The href of an anchor is
\* << path, id, query >>: the path is a storage-blob redirect path ("blob")
\* or any other path ("href"), and the query is one of Queries.
DispQuery == "?disposition=attachment"
Queries == {"", DispQuery, "?locale=en&disposition=attachment", "?locale=en"}
Paths == {"href", "blob"}

\* the content of an element that holds one link of a kind:
\*   "disp"  an anchor whose href ends in ?disposition=attachment
\*   "blob"  a storage-blob redirect path without a query string
\*   "blobq" a storage-blob redirect path that already has a query string
\*   "none"  no link
Anchors(id, link) ==
    CASE link = "disp"  -> << <<"href", id, DispQuery>> >>
      [] link = "blob"  -> << <<"blob", id, "">> >>
      [] link = "blobq" -> << <<"blob", id, "?locale=en">> >>
      [] OTHER          -> <<>>

Text(s) == [t |-> "text", sgid |-> "", filename |-> s, anchors |-> <<>>]
Att(sgid, filename, link) ==
    [t |-> "att", sgid |-> sgid, filename |-> filename,
     anchors |-> Anchors(sgid, link)]

\* the leftmost match of a regular expression, given the positions of the
\* anchors it matches; 0 when it matches none
firstAnchor(hits) ==
    IF hits = {} THEN 0 ELSE CHOOSE i \in hits : \A j \in hits : i <= j

\* href="([^"]+\?disposition=attachment)": the href ends in that query
dispositionMatch(href) == href[3] = DispQuery

\* href="(/[^"]+/rails/active_storage/blobs/redirect/[^"]+)"
blobMatch(href) == href[1] = "blob"

\* parseAttachments, the download URL found in the content of one element
resolveDownloadURL(el) ==
    LET d == firstAnchor({i \in DOMAIN el.anchors : dispositionMatch(el.anchors[i])})
        b == firstAnchor({i \in DOMAIN el.anchors : blobMatch(el.anchors[i])})
    IN IF d # 0 THEN el.anchors[d]
       ELSE IF b # 0
            THEN IF el.anchors[b][3] = ""
                 THEN << el.anchors[b][1], el.anchors[b][2], DispQuery >>
                 ELSE el.anchors[b]
            ELSE <<>>

\* the attachments counted from 0
parseFrom_zeroBased(html, i, n) ==
    LET Kept(el) == el.t = "att" /\ ~(el.filename = "" /\ resolveDownloadURL(el) = <<>>)
        kept == SelectSeq(SubSeq(html, i, Len(html)), Kept)
    IN [k \in DOMAIN kept |->
          [Index |-> n + k - 1, SGID |-> kept[k].sgid,
           Filename |-> kept[k].filename,
           DownloadURL |-> resolveDownloadURL(kept[k])]]

RECURSIVE parseFrom(_, _, _)
parseFrom(html, i, n) ==
    IF i > Len(html) THEN <<>>
    ELSE LET el == html[i]
             url == resolveDownloadURL(el)
         IN IF el.t = "att" /\ ~(el.filename = "" /\ url = <<>>)
            THEN << [Index |-> n + 1, SGID |-> el.sgid, Filename |-> el.filename,
                     DownloadURL |-> url] >> \o parseFrom(html, i + 1, n + 1)
            ELSE parseFrom(html, i + 1, n)

\* parseAttachments: the attachment elements that have a filename or a
\* download URL, in document order, re-indexed from 1
parseAttachments(html) == parseFrom(html, 1, 0)

RECURSIVE firstWith(_, _, _)
firstWith(html, sgid, i) ==
    IF i > Len(html) THEN 0
    ELSE IF html[i].sgid = sgid THEN i ELSE firstWith(html, sgid, i + 1)

\* the sgids that occur in a body
sgidsIn(html) == {html[i].sgid : i \in DOMAIN html} \ {""}

\* ---------------------------------------------------------------- cards
\* The data of the source account.  A card carries the fields the code
\* reads; `comments` is what GET /cards/N/comments.json returns for it.
HtmlComment(html) == [kind |-> "html", html |-> html, text |-> ""]
PlainComment(text) == [kind |-> "plain_text", html |-> <<>>, text |-> text]
StringComment(text) == [kind |-> "string", html |-> <<>>, text |-> text]

RichCard ==
    [number |-> 11, description |-> "plain11",
     description_html |-> << Text("hello"), Att("s1", "a.png", "disp"),
                             Att("s2", "b.png", "blob") >>,
     tags |-> <<"t1", "t2">>, column_id |-> "c1", column |-> NoField,
     status |-> "closed", golden |-> TRUE,
     comments |-> << HtmlComment(<< Att("s3", "c.png", "disp") >>) >>,
     steps |-> << [content |-> "do it", completed |-> TRUE] >>,
     image_url |-> "/img11"]

BareCard ==
    [number |-> 12, description |-> "",
     description_html |-> <<>>,
     tags |-> <<>>, column_id |-> NoField, column |-> NoField,
     status |-> "open", golden |-> FALSE,
     comments |-> <<>>, steps |-> <<>>, image_url |-> ""]

OddCard ==
    [number |-> 13, description |-> "plain13",
     description_html |-> << Att("s4", "", "none"), Att("s5", "d.png", "blobq") >>,
     tags |-> <<"t1">>, column_id |-> NoField, column |-> "c2",
     status |-> "open", golden |-> TRUE,
     comments |-> << StringComment(""), PlainComment("note") >>,
     steps |-> << [content |-> "", completed |-> FALSE],
                  [content |-> "check", completed |-> FALSE] >>,
     image_url |-> "/img13"]

CardPool == {RichCard, BareCard, OddCard}

\* a card that only sits in a column
PlacedCard(colID) ==
    [BareCard EXCEPT !.number = 14, !.column_id = colID]

\* card lists: cards of the pool, each at most once (a card number is
\* unique within an account)
DistinctSeqs(S, n) ==
    {s \in SeqsUpTo(S, n) : \A i, j \in DOMAIN s : i # j => s[i] # s[j]}

\* the card lists the source may return for a board with these columns:
\* the whole pool for the base board, one placed card for every other board
CardListsFor(columns) ==
    IF columns = BaseColumns THEN DistinctSeqs(CardPool, MaxCards)
    ELSE {<<>>} \cup { << PlacedCard(columns[i].id) >> : i \in DOMAIN columns }

\* getCardColumnID
getCardColumnID(card) ==
    IF card.column_id # NoField /\ card.column_id # "" THEN card.column_id
    ELSE IF card.column # NoField THEN card.column
    ELSE ""

\* ------------------------------------------------------- server replies
\* The reply to a creating POST, as the code looks at it: a Location header
\* or not, whether following it works and whether the followed
\* representation carries the id/number, and whether the response body is
\* an object and carries the id/number.
Reply(loc, followOK, followVal, bodyMap, bodyVal) ==
    [loc |-> loc, followOK |-> followOK, followVal |-> followVal,
     bodyMap |-> bodyMap, bodyVal |-> bodyVal]

CreateReplies ==
    { Reply(TRUE, TRUE, TRUE, FALSE, FALSE),    \* 201 + Location, followed
      Reply(TRUE, TRUE, FALSE, FALSE, FALSE),   \* followed, no id in it
      Reply(TRUE, FALSE, FALSE, TRUE, TRUE),    \* follow fails, id in body
      Reply(FALSE, FALSE, FALSE, TRUE, TRUE),   \* no Location, id in body
      Reply(FALSE, FALSE, FALSE, FALSE, FALSE), \* no Location, no body
      Reply(TRUE, FALSE, FALSE, FALSE, FALSE) } \* follow fails, no body

\* the regular reply of the API: 201 with a Location that can be followed
RegularReply == Reply(TRUE, TRUE, TRUE, FALSE, FALSE)

\* every other reply counts as a failed request in the failure budget
ReplyFails(r) == r # RegularReply

\* createBoard / createColumn after a successful POST: the id returned
\* (fresh is the id the server gave the new resource), or an error
createdID(r, fresh) ==
    IF r.loc /\ r.followOK
    THEN [ok |-> TRUE, id |-> IF r.followVal THEN fresh ELSE ""]
    ELSE IF r.bodyMap
    THEN [ok |-> TRUE, id |-> IF r.bodyVal THEN fresh ELSE ""]
    ELSE [ok |-> FALSE, id |-> ""]

\* migrateCard after a successful POST: the new card number, 0 when none
createdNumber(r, fresh) ==
    LET viaFollow == IF r.loc /\ r.followOK /\ r.followVal THEN fresh ELSE 0
    IN IF viaFollow # 0 THEN viaFollow
       ELSE IF r.bodyMap /\ r.bodyVal THEN fresh ELSE 0

\* ---------------------------------------------------------------- state
VARIABLES
    args,           \* the arguments of a function that is run on its own
    result,         \* what that function returned, once it has returned
    opts,           \* token, --from, --to and the four boolean flags
    pc,             \* position in runMigrateBoard / migrateCard / ...
    calls,          \* the requests sent so far, in order
    failures,       \* number of failed requests so far
    exit,           \* "" while running, else the exit status
    fatal,          \* the step whose failure aborted the run, or ""
    boardName,      \* name of the source board
    sourceColumns,  \* reply of the source columns read
    sourceCards,    \* reply of the source cards read
    stats,          \* migrationStats
    columnMapping,  \* source column id -> target column id
    colIdx,         \* loop index over sourceColumns
    cardIdx,        \* loop index over sourceCards
    cur,            \* locals of the running migrateCard
    inl,            \* locals of the running migrateInlineAttachments
    tempFiles,      \* temporary files that exist on the local disk
    warnings,       \* number of "Warning:" lines written to stderr
    summary,        \* what printDryRunSummary wrote to stderr, or <<>>
    payload,        \* what printSuccess received, or <<>>
    target,         \* the target account: boards, columns and cards created
                    \* (of a card: its number, the source card it copies,
                    \* its description, the number the client read for it)
    accounts,       \* the account list of the identity reply, <<>> before
    last            \* the last step that sent a request, and whether the
                    \* function that sent it returned without error

vars == << args, result, opts, pc, calls, failures, exit, fatal, boardName, sourceColumns,
           sourceCards, stats, columnMapping, colIdx, cardIdx, cur, inl,
           tempFiles, warnings, summary, payload, target, accounts, last >>

\* the two clients of runMigrateBoard: the account each is bound to
sourceClient == "source"
targetClient_forSource == "source"
targetClient == "target"

\* a request: the account of the client, the method, the resource, the
\* number of the card addressed (0: none), the position or number of the
\* item concerned (0: none) and its name (id, tag, sgid, URL; "": none)
Call(acct, method, res, card, item, arg) ==
    [acct |-> acct, method |-> method, res |-> res, card |-> card,
     item |-> item, arg |-> arg]

Mutating == {"POST", "PATCH", "DELETE", "UPLOAD"}

EmptyMap == [x \in {} |-> ""]
\* a Go map assignment m[k] = v
MapPut(m, k, v) == [x \in DOMAIN m \cup {k} |-> IF x = k THEN v ELSE m[x]]

\* a description or comment body as it is sent: plain text or HTML
PlainBody(text) == [kind |-> "plain", text |-> text, html |-> <<>>]
HtmlBody(html) == [kind |-> "html", text |-> "", html |-> html]

\* locals of migrateCard and of the functions it calls.  attOK, attFailed
\* and imagesAtStart only record what happened to the card: the sgids of
\* the description's inline attachments that were replaced / whose
\* transfer failed, and imagesMigrated at the start of the card.
NoCur == [card |-> BareCard, description |-> PlainBody(""), newCardNum |-> 0,
          idx |-> 0, comments |-> <<>>, created |-> 0,
          body |-> PlainBody(""), signedID |-> "",
          attOK |-> {}, attFailed |-> {}, imagesAtStart |-> 0]
NoInl == [ctx |-> "", attachments |-> <<>>, idx |-> 0, result |-> <<>>,
          migratedCount |-> 0]

OptionSets ==
    [token : TokenValues, from : FromValues, to : ToValues,
     includeComments : BOOLEAN, includeSteps : BOOLEAN,
     includeImages : BOOLEAN, dryRun : BOOLEAN]

NoResult == [done |-> FALSE]

\* the state of the command at position p, nothing done yet
Started(o, p) ==
    /\ opts = o
    /\ pc = p
    /\ calls = <<>>
    /\ failures = 0
    /\ exit = ""
    /\ fatal = ""
    /\ boardName = ""
    /\ sourceColumns = <<>>
    /\ sourceCards = <<>>
    /\ stats = [boardCreated |-> FALSE, targetBoardID |-> "",
                targetBoardName |-> "", columnsCreated |-> 0,
                cardsCreated |-> 0, tagsApplied |-> 0, commentsCreated |-> 0,
                stepsCreated |-> 0, imagesMigrated |-> 0,
                cardMapping |-> [x \in {} |-> 0]]
    /\ columnMapping = EmptyMap
    /\ colIdx = 0
    /\ cardIdx = 0
    /\ cur = NoCur
    /\ inl = NoInl
    /\ tempFiles = {}
    /\ warnings = 0
    /\ summary = <<>>
    /\ payload = <<>>
    /\ target = [boards |-> 0, columns |-> 0, uploads |-> 0, cards |-> <<>>]
    /\ accounts = <<>>
    /\ last = [step |-> "", ok |-> TRUE]

Init ==
    /\ \E o \in OptionSets : Started(o, "validate")
    /\ args = <<>>
    /\ result = NoResult

MayFail == failures < MaxFailures

\* the failure budget: an irregular outcome needs budget and uses it up
Charge(irregular) ==
    /\ irregular => MayFail
    /\ failures' = failures + (IF irregular THEN 1 ELSE 0)

Step(name, ok) == last' = [step |-> name, ok |-> ok]

Send(cs) == calls' = calls \o cs

\* exitWithError: the process ends with this status
Abort(status, step) ==
    /\ exit' = status
    /\ fatal' = step
    /\ pc' = "exited"

Continue(next) ==
    /\ pc' = next
    /\ UNCHANGED << exit, fatal >>

\* requireAuth: an error unless a token is configured
requireAuth(token) == IF token = "" THEN "auth" ELSE ""

validateFlags_sameAllowed(from, to) ==
    IF from = <<>> THEN "from"
    ELSE IF to = <<>> THEN "to"
    ELSE ""

\* runMigrateBoard, "Validate flags": the first check that fails, "" if none
validateFlags(from, to) ==
    IF from = <<>> THEN "from"
    ELSE IF to = <<>> THEN "to"
    ELSE IF from = to THEN "same"
    ELSE ""

\* runMigrateBoard, requireAuth and the validation of the flags
Validate ==
    /\ pc = "validate"
    /\ IF requireAuth(opts.token) # ""
         THEN Abort("auth_failure", requireAuth(opts.token))
       ELSE IF validateFlags(opts.from, opts.to) # ""
         THEN Abort("invalid_args", validateFlags(opts.from, opts.to))
       ELSE Continue("verify")
    /\ UNCHANGED << args, result, opts, calls, failures, boardName, sourceColumns,
                    sourceCards, stats, columnMapping, colIdx, cardIdx, cur,
                    inl, tempFiles, warnings, summary, payload, target,
                    accounts, last >>

\* runMigrateBoard step 1, verifyAccountAccess: one GET of the identity
VerifyAccess ==
    /\ pc = "verify"
    /\ Send(<< Call("none", "GET", "identity", 0, 0, "") >>)
    /\ \/ /\ Charge(TRUE)
          /\ Step("access", FALSE)
          /\ Abort("error", "access")
          /\ UNCHANGED accounts
       \/ \E reply \in IdentityReplies :
             LET denied == verifyAccountAccess(reply, opts.from, opts.to) IN
             /\ Charge(FALSE)
             /\ accounts' = reply
             /\ Step("access", denied = "")
             /\ IF denied # "" THEN Abort("error", "access")
                ELSE Continue("getBoard")
    /\ UNCHANGED << args, result, opts, boardName, sourceColumns, sourceCards, stats,
                    columnMapping, colIdx, cardIdx, cur, inl, tempFiles,
                    warnings, summary, payload, target >>

\* runMigrateBoard step 2, getBoard
GetBoard ==
    /\ pc = "getBoard"
    /\ Send(<< Call(sourceClient, "GET", "board", 0, 0, "") >>)
    /\ \/ /\ Charge(TRUE)
          /\ Step("board", FALSE)
          /\ Abort("error", "board")
          /\ UNCHANGED boardName
       \/ /\ Charge(FALSE)
          /\ Step("board", TRUE)
          /\ boardName' = "Sprint 7"
          /\ Continue("getColumns")
    /\ UNCHANGED << args, result, opts, sourceColumns, sourceCards, stats, columnMapping,
                    colIdx, cardIdx, cur, inl, tempFiles, warnings, summary,
                    payload, target, accounts >>

\* runMigrateBoard step 3, getColumns
GetColumns ==
    /\ pc = "getColumns"
    /\ Send(<< Call(sourceClient, "GET", "columns", 0, 0, "") >>)
    /\ \/ /\ Charge(TRUE)
          /\ Step("columns", FALSE)
          /\ Abort("error", "columns")
          /\ UNCHANGED sourceColumns
       \/ \E cols \in ColumnListsFor(opts) :
             /\ Charge(FALSE)
             /\ Step("columns", TRUE)
             /\ sourceColumns' = cols
             /\ Continue("getCards")
    /\ UNCHANGED << args, result, opts, boardName, sourceCards, stats, columnMapping,
                    colIdx, cardIdx, cur, inl, tempFiles, warnings, summary,
                    payload, target, accounts >>

afterFetch_ignoreDryRun(o) == "createBoard"

\* runMigrateBoard, `if migrateBoardDryRun` after the reads
afterFetch(o) == IF o.dryRun THEN "dryRun" ELSE "createBoard"

\* runMigrateBoard step 4, getAllCards (all pages)
GetCards ==
    /\ pc = "getCards"
    /\ Send(<< Call(sourceClient, "GETPAGES", "cards", 0, 0, "") >>)
    /\ \/ /\ Charge(TRUE)
          /\ Step("cards", FALSE)
          /\ Abort("error", "cards")
          /\ UNCHANGED sourceCards
       \/ \E cards \in CardListsFor(sourceColumns) :
             /\ Charge(FALSE)
             /\ Step("cards", TRUE)
             /\ sourceCards' = cards
             /\ Continue(afterFetch(opts))
    /\ UNCHANGED << args, result, opts, boardName, sourceColumns, stats, columnMapping,
                    colIdx, cardIdx, cur, inl, tempFiles, warnings, summary,
                    payload, target, accounts >>

\* runMigrateBoard, the dry-run branch: printDryRunSummary and printSuccess
DryRun ==
    /\ pc = "dryRun"
    /\ summary' = [columnsToCreate |-> countRealColumns(sourceColumns),
                   cardsToMigrate |-> Len(sourceCards)]
    /\ payload' = [dry_run |-> TRUE, board |-> boardName,
                   columns |-> Len(sourceColumns), cards |-> Len(sourceCards),
                   from_account |-> opts.from, to_account |-> opts.to]
    /\ exit' = "success"
    /\ pc' = "exited"
    /\ UNCHANGED << args, result, opts, calls, failures, fatal, boardName, sourceColumns,
                    sourceCards, stats, columnMapping, colIdx, cardIdx, cur,
                    inl, tempFiles, warnings, target, accounts, last >>

\* the requests of one creating POST: the POST and, with a Location header,
\* the GET that follows it
PostCalls(res, item, arg, r) ==
    << Call(targetClient, "POST", res, 0, item, arg) >>
    \o (IF r.loc THEN << Call(targetClient, "FOLLOW", res, 0, item, arg) >>
        ELSE <<>>)

TargetBoardID == "tb1"

\* runMigrateBoard step 5, createBoard
CreateBoard ==
    /\ pc = "createBoard"
    /\ \/ /\ Charge(TRUE)
          /\ Send(<< Call(targetClient, "POST", "boards", 0, 0, "") >>)
          /\ Step("createBoard", FALSE)
          /\ Abort("error", "createBoard")
          /\ UNCHANGED << stats, target, colIdx >>
       \/ \E r \in CreateReplies :
             LET got == createdID(r, TargetBoardID) IN
             /\ Charge(ReplyFails(r))
             /\ Send(PostCalls("boards", 0, "", r))
             /\ Step("createBoard", got.ok)
             /\ target' = [target EXCEPT !.boards = @ + 1]
             /\ IF got.ok
                THEN /\ stats' = [stats EXCEPT !.boardCreated = TRUE,
                                               !.targetBoardID = got.id,
                                               !.targetBoardName = boardName]
                     /\ colIdx' = 1
                     /\ Continue("column")
                ELSE /\ Abort("error", "createBoard")
                     /\ UNCHANGED << stats, colIdx >>
    /\ UNCHANGED << args, result, opts, boardName, sourceColumns, sourceCards,
                    columnMapping, cardIdx, cur, inl, tempFiles, warnings,
                    summary, payload, accounts >>

columnFailed_fatal == Abort("error", "column") /\ UNCHANGED warnings

\* runMigrateBoard, `if err != nil` after createColumn: a warning, and the
\* loop goes on
columnFailed == warnings' = warnings + 1 /\ UNCHANGED << pc, exit, fatal >>

\* runMigrateBoard step 6, one iteration of the loop over sourceColumns
\* (createColumn for a column that is not skipped)
CreateColumn ==
    /\ pc = "column"
    /\ colIdx <= Len(sourceColumns)
    /\ LET col == sourceColumns[colIdx] IN
       IF skipColumn(col)
       THEN UNCHANGED << calls, failures, target, columnMapping, stats,
                         warnings, last, pc, exit, fatal >>
       ELSE \/ /\ Charge(TRUE)
               /\ Send(<< Call(targetClient, "POST", "column", 0, 0, col.id) >>)
               /\ Step("column", FALSE)
               /\ columnFailed
               /\ UNCHANGED << target, columnMapping, stats >>
            \/ \E r \in CreateReplies :
                  LET got == createdID(r, TargetColIDs[target.columns + 1]) IN
                  /\ Charge(ReplyFails(r))
                  /\ Send(PostCalls("column", 0, col.id, r))
                  /\ Step("column", got.ok)
                  /\ target' = [target EXCEPT !.columns = @ + 1]
                  /\ IF got.ok
                     THEN /\ columnMapping' = MapPut(columnMapping, col.id, got.id)
                          /\ stats' = [stats EXCEPT !.columnsCreated = @ + 1]
                          /\ UNCHANGED << warnings, pc, exit, fatal >>
                     ELSE /\ columnFailed
                          /\ UNCHANGED << columnMapping, stats >>
    /\ colIdx' = colIdx + 1
    /\ UNCHANGED << args, result, opts, boardName, sourceColumns, sourceCards, cardIdx, cur,
                    inl, tempFiles, summary, payload, accounts >>

ColumnsDone_early ==
    /\ pc = "column"
    /\ colIdx >= 1
    /\ pc' = "card"
    /\ cardIdx' = 1
    /\ UNCHANGED << args, result, opts, calls, failures, exit, fatal, boardName,
                    sourceColumns, sourceCards, stats, columnMapping, colIdx,
                    cur, inl, tempFiles, warnings, summary, payload, target,
                    accounts, last >>

\* runMigrateBoard, the end of the loop over sourceColumns
ColumnsDone ==
    /\ pc = "column"
    /\ colIdx > Len(sourceColumns)
    /\ pc' = "card"
    /\ cardIdx' = 1
    /\ UNCHANGED << args, result, opts, calls, failures, exit, fatal, boardName,
                    sourceColumns, sourceCards, stats, columnMapping, colIdx,
                    cur, inl, tempFiles, warnings, summary, payload, target,
                    accounts, last >>

\* ids the target gives to uploaded blobs, in upload order
NewBlobIDs == <<"n1", "n2", "n3", "n4", "n5", "n6", "n7", "n8", "n9">>

\* numbers the target gives to created cards, in creation order
TargetCardNumber(k) == 100 + k

\* replies to an upload: an error, a body that is not an object, an object
\* without any id, the regular one (signed_id and attachable_sgid), and one
\* with signed_id only
UploadReplies == {"error", "invalid", "noid", "regular", "signed_only"}
UploadFails(u) == u \in {"error", "invalid", "noid"}

RECURSIVE nextDownloadable(_, _)
\* migrateInlineAttachments: the next attachment from position i on that has
\* a download URL (the others are passed over), Len + 1 when there is none
nextDownloadable(attachments, i) ==
    IF i > Len(attachments) THEN i
    ELSE IF attachments[i].DownloadURL = <<>> THEN nextDownloadable(attachments, i + 1)
    ELSE i

\* the position and the locals with which migrateInlineAttachments starts
inlineStart(ctx, html) ==
    LET atts == parseAttachments(html)
        first == nextDownloadable(atts, 1)
    IN [pc |-> IF first > Len(atts) THEN "inl_return" ELSE "inl_download",
        inl |-> [ctx |-> ctx, attachments |-> atts, idx |-> first,
                 result |-> html, migratedCount |-> 0]]

\* the position after the current attachment of migrateInlineAttachments
inlinePcAfter ==
    IF nextDownloadable(inl.attachments, inl.idx + 1) > Len(inl.attachments)
    THEN "inl_return" ELSE "inl_download"

inlineAdvance(frame) ==
    [frame EXCEPT !.idx = nextDownloadable(frame.attachments, @ + 1)]

\* runMigrateBoard step 7, the head of the loop over sourceCards and the
\* start of migrateCard for the next card
StartCard ==
    /\ pc = "card"
    /\ cardIdx <= Len(sourceCards)
    /\ LET card == sourceCards[cardIdx]
           start == inlineStart("desc", card.description_html)
       IN /\ cur' = [NoCur EXCEPT !.card = card,
                                  !.description = PlainBody(card.description),
                                  !.imagesAtStart = stats.imagesMigrated]
          /\ IF opts.includeImages /\ card.description_html # <<>>
             THEN pc' = start.pc /\ inl' = start.inl
             ELSE pc' = "card_post" /\ inl' = NoInl
    /\ UNCHANGED << args, result, opts, calls, failures, exit, fatal, boardName,
                    sourceColumns, sourceCards, stats, columnMapping, colIdx,
                    cardIdx, tempFiles, warnings, summary, payload, target,
                    accounts, last >>

InlineTempFile == << "fizzy-migrate-attachment", inl.attachments[inl.idx].Index,
                     inl.attachments[inl.idx].Filename >>

\* what happened to an attachment of the description is noted in cur
noteAttachment(field, sgid) ==
    IF inl.ctx = "desc"
    THEN cur' = [cur EXCEPT ![field] = @ \cup {sgid}]
    ELSE UNCHANGED cur

\* migrateInlineAttachments, the download of one attachment
InlineDownload ==
    /\ pc = "inl_download"
    /\ LET a == inl.attachments[inl.idx] IN
       /\ Send(<< Call(sourceClient, "DOWNLOAD", "file", 0, a.Index, a.SGID) >>)
       /\ \/ /\ Charge(TRUE)
             /\ Step("download", FALSE)
             /\ warnings' = warnings + 1
             /\ tempFiles' = tempFiles \ {InlineTempFile}
             /\ inl' = inlineAdvance(inl)
             /\ pc' = inlinePcAfter
             /\ noteAttachment("attFailed", a.SGID)
          \/ /\ Charge(FALSE)
             /\ Step("download", TRUE)
             /\ tempFiles' = tempFiles \cup {InlineTempFile}
             /\ pc' = "inl_upload"
             /\ UNCHANGED << warnings, inl, cur >>
    /\ UNCHANGED << args, result, opts, exit, fatal, boardName, sourceColumns, sourceCards,
                    stats, columnMapping, colIdx, cardIdx, summary, payload,
                    target, accounts >>

replaceFirst_firstElement(html, old, new) ==
    LET withSgid == {i \in DOMAIN html : html[i].sgid # ""}
    IN IF withSgid = {} THEN html
       ELSE [html EXCEPT ![CHOOSE i \in withSgid : \A j \in withSgid : i <= j].sgid = new]

\* strings.Replace(result, old, new, 1): the first occurrence of the old
\* sgid in the text is replaced, wherever it is
replaceFirst(html, old, new) ==
    LET i == firstWith(html, old, 1)
    IN IF i = 0 THEN html ELSE [html EXCEPT ![i].sgid = new]

\* migrateInlineAttachments, the upload of one attachment and the
\* replacement of its sgid
InlineUpload ==
    /\ pc = "inl_upload"
    /\ \E u \in UploadReplies :
         LET a == inl.attachments[inl.idx]
             newSGID == NewBlobIDs[target.uploads + 1]
         IN /\ Charge(u # "regular")
            /\ Send(<< Call(targetClient, "UPLOAD", "file", 0, a.Index, a.SGID) >>)
            /\ Step("upload", ~UploadFails(u))
            /\ tempFiles' = tempFiles \ {InlineTempFile}
            /\ target' = [target EXCEPT !.uploads = IF u = "error" THEN @ ELSE @ + 1]
            /\ IF UploadFails(u)
               THEN /\ warnings' = warnings + 1
                    /\ inl' = inlineAdvance(inl)
                    /\ noteAttachment("attFailed", a.SGID)
               ELSE /\ UNCHANGED warnings
                    /\ IF a.SGID # ""
                       THEN /\ inl' = inlineAdvance(
                                        [inl EXCEPT
                                           !.result = replaceFirst(@, a.SGID, newSGID),
                                           !.migratedCount = @ + 1])
                            /\ noteAttachment("attOK", a.SGID)
                       ELSE /\ inl' = inlineAdvance(inl)
                            /\ UNCHANGED cur
            /\ pc' = inlinePcAfter
    /\ UNCHANGED << args, result, opts, exit, fatal, boardName, sourceColumns, sourceCards,
                    stats, columnMapping, colIdx, cardIdx, summary, payload,
                    accounts >>

InlineReturn_countsComments ==
    /\ pc = "inl_return"
    /\ IF inl.ctx = "desc"
       THEN /\ pc' = "card_post"
            /\ IF inl.migratedCount > 0
               THEN /\ cur' = [cur EXCEPT !.description = HtmlBody(inl.result)]
                    /\ stats' = [stats EXCEPT !.imagesMigrated = @ + inl.migratedCount]
               ELSE UNCHANGED << cur, stats >>
       ELSE /\ pc' = "cmt_post"
            /\ cur' = [cur EXCEPT !.body = HtmlBody(inl.result)]
            /\ stats' = [stats EXCEPT !.imagesMigrated = @ + inl.migratedCount]
    /\ inl' = NoInl
    /\ UNCHANGED << args, result, opts, calls, failures, exit, fatal, boardName,
                    sourceColumns, sourceCards, columnMapping, colIdx, cardIdx,
                    tempFiles, warnings, summary, payload, target, accounts,
                    last >>

\* the return of migrateInlineAttachments into migrateCard (description) or
\* into migrateComments (comment body)
InlineReturn ==
    /\ pc = "inl_return"
    /\ IF inl.ctx = "desc"
       THEN /\ pc' = "card_post"
            /\ IF inl.migratedCount > 0
               THEN /\ cur' = [cur EXCEPT !.description = HtmlBody(inl.result)]
                    /\ stats' = [stats EXCEPT !.imagesMigrated = @ + inl.migratedCount]
               ELSE UNCHANGED << cur, stats >>
       ELSE /\ pc' = "cmt_post"
            /\ cur' = [cur EXCEPT !.body = HtmlBody(inl.result)]
            /\ UNCHANGED stats
    /\ inl' = NoInl
    /\ UNCHANGED << args, result, opts, calls, failures, exit, fatal, boardName,
                    sourceColumns, sourceCards, columnMapping, colIdx, cardIdx,
                    tempFiles, warnings, summary, payload, target, accounts,
                    last >>

GiveUpCard_goOn ==
    /\ pc' = "tag"
    /\ cur' = [cur EXCEPT !.idx = 1]
    /\ UNCHANGED << warnings, cardIdx >>

\* runMigrateBoard: migrateCard returned an error, the card is given up
GiveUpCard ==
    /\ warnings' = warnings + 1
    /\ cardIdx' = cardIdx + 1
    /\ pc' = "card"
    /\ cur' = NoCur

\* migrateCard, the creation of the card in the target and the reading of
\* its new number
CardPost ==
    /\ pc = "card_post"
    /\ \/ /\ Charge(TRUE)
          /\ Send(<< Call(targetClient, "POST", "card", 0, cur.card.number, "") >>)
          /\ Step("card", FALSE)
          /\ GiveUpCard
          /\ UNCHANGED target
       \/ \E r \in CreateReplies :
             LET fresh == TargetCardNumber(Len(target.cards) + 1)
                 newCardNum == createdNumber(r, fresh)
             IN /\ Charge(ReplyFails(r))
                /\ Send(PostCalls("card", cur.card.number, "", r))
                /\ Step("card", newCardNum # 0)
                /\ target' = [target EXCEPT !.cards =
                                 Append(@, [number |-> fresh,
                                            source |-> cur.card.number,
                                            description |-> cur.description,
                                            read |-> newCardNum])]
                /\ IF newCardNum = 0
                   THEN GiveUpCard
                   ELSE /\ cur' = [cur EXCEPT !.newCardNum = newCardNum, !.idx = 1]
                        /\ pc' = "tag"
                        /\ UNCHANGED << warnings, cardIdx >>
    /\ UNCHANGED << args, result, opts, exit, fatal, boardName, sourceColumns, sourceCards,
                    stats, columnMapping, colIdx, inl, tempFiles, summary,
                    payload, accounts >>

SoftPost_silent(res, item, arg, step) ==
    /\ Send(<< Call(targetClient, "POST", res, cur.newCardNum, item, arg) >>)
    /\ \/ Charge(TRUE) /\ Step(step, FALSE) /\ UNCHANGED warnings
       \/ Charge(FALSE) /\ Step(step, TRUE) /\ UNCHANGED warnings

\* a POST of migrateCard (applyTag, moveToColumn, closeCard, markGolden):
\* an error is written as a warning and nothing else happens
SoftPost(res, item, arg, step) ==
    /\ Send(<< Call(targetClient, "POST", res, cur.newCardNum, item, arg) >>)
    /\ \/ Charge(TRUE) /\ Step(step, FALSE) /\ warnings' = warnings + 1
       \/ Charge(FALSE) /\ Step(step, TRUE) /\ UNCHANGED warnings

\* migrateCard, one iteration of the loop over the tags (applyTag), or its end
ApplyTag ==
    /\ pc = "tag"
    /\ IF cur.idx > Len(cur.card.tags)
       THEN /\ pc' = "place"
            /\ UNCHANGED << calls, failures, warnings, stats, cur, last >>
       ELSE /\ SoftPost("tagging", cur.idx, cur.card.tags[cur.idx], "tag")
            /\ stats' = [stats EXCEPT !.tagsApplied = IF last'.ok THEN @ + 1 ELSE @]
            /\ cur' = [cur EXCEPT !.idx = @ + 1]
            /\ UNCHANGED pc
    /\ UNCHANGED << args, result, opts, exit, fatal, boardName, sourceColumns, sourceCards,
                    columnMapping, colIdx, cardIdx, inl, tempFiles, summary,
                    payload, target, accounts >>

\* migrateCard, "Move to correct column" (moveToColumn)
PlaceCard ==
    /\ pc = "place"
    /\ LET sourceColumnID == getCardColumnID(cur.card) IN
       IF sourceColumnID # "" /\ sourceColumnID \in DOMAIN columnMapping
       THEN SoftPost("triage", 0, columnMapping[sourceColumnID], "place")
       ELSE UNCHANGED << calls, failures, warnings, last >>
    /\ pc' = "close"
    /\ UNCHANGED << args, result, opts, exit, fatal, boardName, sourceColumns, sourceCards,
                    stats, columnMapping, colIdx, cardIdx, cur, inl, tempFiles,
                    summary, payload, target, accounts >>

\* migrateCard, "Check if card is closed" (closeCard)
CloseCard ==
    /\ pc = "close"
    /\ IF cur.card.status = "closed"
       THEN SoftPost("closure", 0, "", "close")
       ELSE UNCHANGED << calls, failures, warnings, last >>
    /\ pc' = "golden"
    /\ UNCHANGED << args, result, opts, exit, fatal, boardName, sourceColumns, sourceCards,
                    stats, columnMapping, colIdx, cardIdx, cur, inl, tempFiles,
                    summary, payload, target, accounts >>

MarkGolden_thenClose ==
    /\ pc = "golden"
    /\ IF cur.card.golden
       THEN SoftPost("goldness", 0, "", "golden")
       ELSE UNCHANGED << calls, failures, warnings, last >>
    /\ pc' = "close"
    /\ UNCHANGED << args, result, opts, exit, fatal, boardName, sourceColumns, sourceCards,
                    stats, columnMapping, colIdx, cardIdx, cur, inl, tempFiles,
                    summary, payload, target, accounts >>

\* migrateCard, "Apply golden status" (markGolden)
MarkGolden ==
    /\ pc = "golden"
    /\ IF cur.card.golden
       THEN SoftPost("goldness", 0, "", "golden")
       ELSE UNCHANGED << calls, failures, warnings, last >>
    /\ pc' = "comments"
    /\ UNCHANGED << args, result, opts, exit, fatal, boardName, sourceColumns, sourceCards,
                    stats, columnMapping, colIdx, cardIdx, cur, inl, tempFiles,
                    summary, payload, target, accounts >>

FetchComments_ungated ==
    /\ pc = "comments"
    /\ IF FALSE
       THEN /\ pc' = "steps"
            /\ cur' = [cur EXCEPT !.idx = 1, !.created = 0]
            /\ UNCHANGED << calls, failures, warnings, last >>
       ELSE /\ Send(<< Call(sourceClient, "GETPAGES", "comments", cur.card.number, 0, "") >>)
            /\ \/ /\ Charge(TRUE)
                  /\ Step("comments", FALSE)
                  /\ warnings' = warnings + 1
                  /\ pc' = "steps"
                  /\ cur' = [cur EXCEPT !.idx = 1, !.created = 0]
               \/ /\ Charge(FALSE)
                  /\ Step("comments", TRUE)
                  /\ pc' = "cmt_item"
                  /\ cur' = [cur EXCEPT !.comments = cur.card.comments,
                                        !.idx = 1, !.created = 0]
                  /\ UNCHANGED warnings
    /\ UNCHANGED << args, result, opts, exit, fatal, boardName, sourceColumns, sourceCards,
                    stats, columnMapping, colIdx, cardIdx, inl, tempFiles,
                    summary, payload, target, accounts >>

\* migrateCard, "Migrate comments if requested": the read of the source
\* comments at the start of migrateComments
FetchComments ==
    /\ pc = "comments"
    /\ IF ~opts.includeComments
       THEN /\ pc' = "steps"
            /\ cur' = [cur EXCEPT !.idx = 1, !.created = 0]
            /\ UNCHANGED << calls, failures, warnings, last >>
       ELSE /\ Send(<< Call(sourceClient, "GETPAGES", "comments", cur.card.number, 0, "") >>)
            /\ \/ /\ Charge(TRUE)
                  /\ Step("comments", FALSE)
                  /\ warnings' = warnings + 1
                  /\ pc' = "steps"
                  /\ cur' = [cur EXCEPT !.idx = 1, !.created = 0]
               \/ /\ Charge(FALSE)
                  /\ Step("comments", TRUE)
                  /\ pc' = "cmt_item"
                  /\ cur' = [cur EXCEPT !.comments = cur.card.comments,
                                        !.idx = 1, !.created = 0]
                  /\ UNCHANGED warnings
    /\ UNCHANGED << args, result, opts, exit, fatal, boardName, sourceColumns, sourceCards,
                    stats, columnMapping, colIdx, cardIdx, inl, tempFiles,
                    summary, payload, target, accounts >>

\* migrateComments, the body of one comment as the code reads it
commentBody(c) ==
    IF c.kind = "html" THEN HtmlBody(c.html) ELSE PlainBody(c.text)

bodyIsEmpty(b) == b.text = "" /\ b.html = <<>>

\* migrateComments, the head of one iteration of the loop over the comments
\* up to the POST, or the end of the loop and the return into migrateCard
NextComment ==
    /\ pc = "cmt_item"
    /\ IF cur.idx > Len(cur.comments)
       THEN /\ stats' = [stats EXCEPT !.commentsCreated = @ + cur.created]
            /\ cur' = [cur EXCEPT !.idx = 1, !.created = 0, !.comments = <<>>,
                                  !.body = PlainBody("")]
            /\ pc' = "steps"
            /\ UNCHANGED inl
       ELSE LET c == cur.comments[cur.idx]
                body == commentBody(c)
                start == inlineStart("comment", c.html)
            IN /\ UNCHANGED stats
               /\ IF bodyIsEmpty(body)
                  THEN /\ cur' = [cur EXCEPT !.idx = @ + 1]
                       /\ UNCHANGED << pc, inl >>
                  ELSE /\ cur' = [cur EXCEPT !.body = body]
                       /\ IF opts.includeImages /\ c.kind = "html"
                          THEN pc' = start.pc /\ inl' = start.inl
                          ELSE pc' = "cmt_post" /\ UNCHANGED inl
    /\ UNCHANGED << args, result, opts, calls, failures, exit, fatal, boardName,
                    sourceColumns, sourceCards, columnMapping, colIdx, cardIdx,
                    tempFiles, warnings, summary, payload, target, accounts,
                    last >>

PostComment_retry ==
    /\ pc = "cmt_post"
    /\ SoftPost("comment", cur.idx, "", "comment")
    /\ cur' = [cur EXCEPT !.idx = IF last'.ok THEN @ + 1 ELSE @,
                          !.created = IF last'.ok THEN @ + 1 ELSE @]
    /\ pc' = IF last'.ok THEN "cmt_item" ELSE "cmt_post"
    /\ UNCHANGED << args, result, opts, exit, fatal, boardName, sourceColumns, sourceCards,
                    stats, columnMapping, colIdx, cardIdx, inl, tempFiles,
                    summary, payload, target, accounts >>

\* migrateComments, the creation of one comment in the target
PostComment ==
    /\ pc = "cmt_post"
    /\ SoftPost("comment", cur.idx, "", "comment")
    /\ cur' = [cur EXCEPT !.idx = @ + 1,
                          !.created = IF last'.ok THEN @ + 1 ELSE @]
    /\ pc' = "cmt_item"
    /\ UNCHANGED << args, result, opts, exit, fatal, boardName, sourceColumns, sourceCards,
                    stats, columnMapping, colIdx, cardIdx, inl, tempFiles,
                    summary, payload, target, accounts >>

\* migrateCard, "Migrate steps if requested": one iteration of the loop of
\* migrateSteps, or its end and the return into migrateCard
MigrateStep ==
    /\ pc = "steps"
    /\ IF ~opts.includeSteps \/ cur.idx > Len(cur.card.steps)
       THEN /\ stats' = [stats EXCEPT !.stepsCreated = @ + cur.created]
            /\ cur' = [cur EXCEPT !.idx = 1, !.created = 0]
            /\ pc' = "image"
            /\ UNCHANGED << calls, failures, warnings, last >>
       ELSE LET step == cur.card.steps[cur.idx] IN
            /\ UNCHANGED << pc, stats >>
            /\ IF step.content = ""
               THEN /\ cur' = [cur EXCEPT !.idx = @ + 1]
                    /\ UNCHANGED << calls, failures, warnings, last >>
               ELSE /\ SoftPost("step", cur.idx, step.content, "step")
                    /\ cur' = [cur EXCEPT !.idx = @ + 1,
                                          !.created = IF last'.ok THEN @ + 1 ELSE @]
    /\ UNCHANGED << args, result, opts, exit, fatal, boardName, sourceColumns, sourceCards,
                    columnMapping, colIdx, cardIdx, inl, tempFiles, summary,
                    payload, target, accounts >>

ImageTempFile == << "fizzy-migrate-image", cur.newCardNum, ".jpg" >>

\* migrateCard, "Migrate card image if requested": the download at the
\* start of migrateCardImage
DownloadImage ==
    /\ pc = "image"
    /\ IF ~(opts.includeImages /\ cur.card.image_url # "")
       THEN /\ pc' = "record"
            /\ UNCHANGED << calls, failures, warnings, tempFiles, last >>
       ELSE /\ Send(<< Call(sourceClient, "DOWNLOAD", "image", cur.newCardNum,
                            0, cur.card.image_url) >>)
            /\ \/ /\ Charge(TRUE)
                  /\ Step("image", FALSE)
                  /\ warnings' = warnings + 1
                  /\ tempFiles' = tempFiles \ {ImageTempFile}
                  /\ pc' = "record"
               \/ /\ Charge(FALSE)
                  /\ Step("image", TRUE)
                  /\ tempFiles' = tempFiles \cup {ImageTempFile}
                  /\ pc' = "img_upload"
                  /\ UNCHANGED warnings
    /\ UNCHANGED << args, result, opts, exit, fatal, boardName, sourceColumns, sourceCards,
                    stats, columnMapping, colIdx, cardIdx, cur, inl, summary,
                    payload, target, accounts >>

\* migrateCardImage, the upload and the reading of signed_id
UploadImage ==
    /\ pc = "img_upload"
    /\ \E u \in UploadReplies \ {"signed_only"} :
         /\ Charge(u # "regular")
         /\ Send(<< Call(targetClient, "UPLOAD", "image", cur.newCardNum,
                         0, cur.card.image_url) >>)
         /\ Step("image", ~UploadFails(u))
         /\ target' = [target EXCEPT !.uploads = IF u = "error" THEN @ ELSE @ + 1]
         /\ IF UploadFails(u)
            THEN /\ warnings' = warnings + 1
                 /\ tempFiles' = tempFiles \ {ImageTempFile}
                 /\ pc' = "record"
                 /\ UNCHANGED cur
            ELSE /\ cur' = [cur EXCEPT !.signedID = NewBlobIDs[target.uploads + 1]]
                 /\ pc' = "img_patch"
                 /\ UNCHANGED << warnings, tempFiles >>
    /\ UNCHANGED << args, result, opts, exit, fatal, boardName, sourceColumns, sourceCards,
                    stats, columnMapping, colIdx, cardIdx, inl, summary,
                    payload, accounts >>

PatchImage_keepOnError ==
    /\ pc = "img_patch"
    /\ Send(<< Call(targetClient, "PATCH", "card", cur.newCardNum, 0, cur.signedID) >>)
    /\ \/ /\ Charge(TRUE)
          /\ Step("image", FALSE)
          /\ warnings' = warnings + 1
          /\ UNCHANGED << stats, tempFiles >>
       \/ /\ Charge(FALSE)
          /\ Step("image", TRUE)
          /\ stats' = [stats EXCEPT !.imagesMigrated = @ + 1]
          /\ tempFiles' = tempFiles \ {ImageTempFile}
          /\ UNCHANGED warnings
    /\ pc' = "record"
    /\ UNCHANGED << args, result, opts, exit, fatal, boardName, sourceColumns, sourceCards,
                    columnMapping, colIdx, cardIdx, cur, inl, summary, payload,
                    target, accounts >>

\* migrateCardImage, the update of the card with the new image, and the
\* deferred removal of the temporary file
PatchImage ==
    /\ pc = "img_patch"
    /\ Send(<< Call(targetClient, "PATCH", "card", cur.newCardNum, 0, cur.signedID) >>)
    /\ \/ /\ Charge(TRUE)
          /\ Step("image", FALSE)
          /\ warnings' = warnings + 1
          /\ UNCHANGED stats
       \/ /\ Charge(FALSE)
          /\ Step("image", TRUE)
          /\ stats' = [stats EXCEPT !.imagesMigrated = @ + 1]
          /\ UNCHANGED warnings
    /\ tempFiles' = tempFiles \ {ImageTempFile}
    /\ pc' = "record"
    /\ UNCHANGED << args, result, opts, exit, fatal, boardName, sourceColumns, sourceCards,
                    columnMapping, colIdx, cardIdx, cur, inl, summary, payload,
                    target, accounts >>

recordCardMapping_swapped(mapping, sourceCardNum, targetCardNum) ==
    MapPut(mapping, targetCardNum, sourceCardNum)

\* runMigrateBoard, stats.cardMapping[sourceCardNum] = targetCardNum
recordCardMapping(mapping, sourceCardNum, targetCardNum) ==
    MapPut(mapping, sourceCardNum, targetCardNum)

\* runMigrateBoard: migrateCard returned the new number, the card mapping
\* entry is recorded
RecordCard ==
    /\ pc = "record"
    /\ stats' = [stats EXCEPT
                   !.cardMapping = recordCardMapping(@, cur.card.number, cur.newCardNum),
                   !.cardsCreated = @ + 1]
    /\ cardIdx' = cardIdx + 1
    /\ cur' = NoCur
    /\ pc' = "card"
    /\ UNCHANGED << args, result, opts, calls, failures, exit, fatal, boardName,
                    sourceColumns, sourceCards, columnMapping, colIdx, inl,
                    tempFiles, warnings, summary, payload, target, accounts,
                    last >>

\* runMigrateBoard, printMigrationSummary and printSuccess
migratedPayload_noMapping(st) ==
    [migrated |-> TRUE, board_id |-> st.targetBoardID,
     board_name |-> st.targetBoardName,
     columns_created |-> st.columnsCreated, cards_created |-> st.cardsCreated,
     tags_applied |-> st.tagsApplied, comments_created |-> st.commentsCreated,
     steps_created |-> st.stepsCreated, images_migrated |-> st.imagesMigrated]

\* runMigrateBoard, the map handed to printSuccess at the end of a real run
migratedPayload(st) ==
    [migrated |-> TRUE, board_id |-> st.targetBoardID,
     board_name |-> st.targetBoardName,
     columns_created |-> st.columnsCreated, cards_created |-> st.cardsCreated,
     tags_applied |-> st.tagsApplied, comments_created |-> st.commentsCreated,
     steps_created |-> st.stepsCreated, images_migrated |-> st.imagesMigrated,
     card_mapping |-> st.cardMapping]

Summary ==
    /\ pc = "card"
    /\ cardIdx > Len(sourceCards)
    /\ payload' = migratedPayload(stats)
    /\ exit' = "success"
    /\ pc' = "exited"
    /\ UNCHANGED << args, result, opts, calls, failures, fatal, boardName, sourceColumns,
                    sourceCards, stats, columnMapping, colIdx, cardIdx, cur,
                    inl, tempFiles, warnings, summary, target, accounts, last >>

Next ==
    \/ Validate
    \/ VerifyAccess
    \/ GetBoard
    \/ GetColumns
    \/ GetCards
    \/ DryRun
    \/ CreateBoard
    \/ CreateColumn
    \/ ColumnsDone
    \/ StartCard
    \/ InlineDownload
    \/ InlineUpload
    \/ InlineReturn
    \/ CardPost
    \/ ApplyTag
    \/ PlaceCard
    \/ CloseCard
    \/ MarkGolden
    \/ FetchComments
    \/ NextComment
    \/ PostComment
    \/ MigrateStep
    \/ DownloadImage
    \/ UploadImage
    \/ PatchImage
    \/ RecordCard
    \/ Summary

Spec == Init /\ [][Next]_vars

\* the command is one sequential process: while a step is possible the
\* process takes it
FairSpec == Spec /\ WF_vars(Next)

\* ================================================================ claims
IsPrefix(a, b) == Len(a) <= Len(b) /\ \A i \in DOMAIN a : a[i] = b[i]

CallsWhere(Test(_)) == {i \in DOMAIN calls : Test(calls[i])}

IsMutating(c) == c.method \in Mutating

\* the four reads every run starts with
DryRunReads ==
    << Call("none", "GET", "identity", 0, 0, ""),
       Call("source", "GET", "board", 0, 0, ""),
       Call("source", "GET", "columns", 0, 0, ""),
       Call("source", "GETPAGES", "cards", 0, 0, "") >>

NothingCreated == target = [boards |-> 0, columns |-> 0, uploads |-> 0, cards |-> <<>>]

\* C1: a dry run sends no mutating request to any account on any path: it
\* sends the identity read, the source board read, the source columns read
\* and the source cards read, in this order, and then stops.
C1_DryRunOnlyReads ==
    opts.dryRun =>
        /\ CallsWhere(IsMutating) = {}
        /\ IsPrefix(calls, DryRunReads)
        /\ NothingCreated
        /\ exit = "success" => calls = DryRunReads /\ pc = "exited"

C1_Witness ==
    /\ opts.dryRun /\ exit = "success"
    /\ Len(sourceCards) > 0 /\ countRealColumns(sourceColumns) > 0

IsIdentityRead(c) == c.res = "identity"

\* C2: the account-access check is made exactly once per run that gets to
\* it, before any mutating request; when it fails the run aborts and no
\* create/update/delete/upload request has been sent to any account.
C2_AccessCheckedOnceFirst ==
    /\ pc \notin {"validate", "verify"} /\ fatal \notin {"auth", "from", "to", "same"}
         => Cardinality(CallsWhere(IsIdentityRead)) = 1 /\ IsIdentityRead(calls[1])
    /\ CallsWhere(IsMutating) # {}
         => foundAccount(accounts, opts.from) /\ foundAccount(accounts, opts.to)
    /\ fatal = "access"
         => exit = "error" /\ pc = "exited" /\ Len(calls) = 1 /\ NothingCreated

C2_Witness ==
    /\ fatal = "access" /\ accounts # <<>>
    /\ ~foundAccount(accounts, opts.to)

\* the sub-steps of migrateCard after the creation of the card
CardSubSteps == {"tag", "place", "close", "golden", "comments", "comment",
                 "step", "image"}

\* the requests that start the sub-steps a card has, whatever their outcome
ExpectedCalls(card, num) ==
    LET col == getCardColumnID(card) IN
    {Call("target", "POST", "tagging", num, i, card.tags[i]) : i \in DOMAIN card.tags}
    \cup (IF col # "" /\ col \in DOMAIN columnMapping
          THEN {Call("target", "POST", "triage", num, 0, columnMapping[col])} ELSE {})
    \cup (IF card.status = "closed"
          THEN {Call("target", "POST", "closure", num, 0, "")} ELSE {})
    \cup (IF card.golden
          THEN {Call("target", "POST", "goldness", num, 0, "")} ELSE {})
    \cup (IF opts.includeComments
          THEN {Call("source", "GETPAGES", "comments", card.number, 0, "")} ELSE {})
    \cup (IF opts.includeSteps
          THEN {Call("target", "POST", "step", num, i, card.steps[i].content) :
                  i \in {j \in DOMAIN card.steps : card.steps[j].content # ""}}
          ELSE {})
    \cup (IF opts.includeImages /\ card.image_url # ""
          THEN {Call("source", "DOWNLOAD", "image", num, 0, card.image_url)} ELSE {})

C3_AllAttempted ==
    /\ pc = "record" => ExpectedCalls(cur.card, cur.newCardNum) \subseteq Range(calls)
    /\ exit = "success" /\ ~opts.dryRun =>
          \A k \in DOMAIN sourceCards :
             Call("target", "POST", "card", 0, sourceCards[k].number, "") \in Range(calls)

C3_FailureIsWarning ==
    (calls' # calls /\ last'.step \in CardSubSteps /\ ~last'.ok)
        => /\ warnings' = warnings + 1
           /\ exit' = "" /\ cardIdx' = cardIdx /\ cur'.newCardNum = cur.newCardNum
           /\ stats'.cardMapping = stats.cardMapping

\* C3: when a sub-step of a card (a tag, the column placement, closing,
\* golden, the comments, a step, the header image) fails, a warning is
\* written, the run goes on, and all later sub-steps of the card and all
\* later cards are still attempted.
C3_SubStepsIndependent == []C3_AllAttempted /\ [][C3_FailureIsWarning]_vars

C3_Witness ==
    /\ exit = "success" /\ sourceCards = << RichCard, OddCard >>
    /\ opts.includeComments /\ opts.includeSteps /\ opts.includeImages
    /\ stats.cardsCreated = 2 /\ stats.tagsApplied = 2 /\ warnings = 2

FatalSteps == {"access", "board", "columns", "cards", "createBoard"}

\* C4: after the flags are accepted a run aborts exactly when the access
\* check, the source board read, the source columns read, the source cards
\* read or the creation of the target board fails; a failed column
\* creation is a warning, leaves the column out of the mapping and the loop
\* goes on.
C4_FatalExactlyFive ==
    /\ exit = "error" <=> (last.step \in FatalSteps /\ ~last.ok)
    /\ exit = "error" => fatal = last.step /\ pc = "exited"
    /\ exit \in {"auth_failure", "invalid_args"} => calls = <<>>
    /\ (last.step = "column" /\ ~last.ok)
          => /\ exit \in {"", "success"} /\ warnings > 0
             /\ sourceColumns[colIdx - 1].id \notin DOMAIN columnMapping

C4_Witness ==
    /\ exit = "success" /\ ~opts.dryRun /\ warnings = 1
    /\ stats.columnsCreated < countRealColumns(sourceColumns)
    /\ stats.cardsCreated > 0

\* the target cards whose number the client could read
ReadCards == {k \in DOMAIN target.cards : target.cards[k].read # 0}

\* C5: at the end of a real run the card mapping has exactly one entry for
\* each source card whose target card was created (and its new number
\* read), from the source number to the new number, whatever sub-steps of
\* the card failed; the number of entries is the number of cards created.
C5_CardMappingExact ==
    exit = "success" /\ ~opts.dryRun =>
        /\ DOMAIN stats.cardMapping = {target.cards[k].source : k \in ReadCards}
        /\ \A k \in ReadCards :
              stats.cardMapping[target.cards[k].source] = target.cards[k].number
        /\ Cardinality(DOMAIN stats.cardMapping) = Cardinality(ReadCards)
        /\ stats.cardsCreated = Cardinality(ReadCards)
        /\ payload.card_mapping = stats.cardMapping

C5_Witness ==
    /\ exit = "success" /\ ~opts.dryRun /\ Len(sourceCards) = 2
    /\ stats.cardsCreated = 1 /\ warnings = 2 /\ Len(target.cards) = 1
    /\ stats.tagsApplied < Len(sourceCards[1].tags) + Len(sourceCards[2].tags)

IsColumnPost(c) == c.res = "column" /\ c.method = "POST"

\* the source columns for which a creation request was sent, in the order
\* of the requests
PostedColumns ==
    LET posts == SelectSeq(calls, IsColumnPost)
    IN [i \in DOMAIN posts |-> posts[i].arg]

\* the source columns an exclusion rule keeps, in the order of the source
KeptColumns(Excluded(_)) ==
    LET Keep(col) == ~Excluded(col)
        kept == SelectSeq(sourceColumns, Keep)
    IN [i \in DOMAIN kept |-> kept[i].id]

ColumnsCloned(Excluded(_)) ==
    stats.boardCreated =>
        /\ IsPrefix(PostedColumns, KeptColumns(Excluded))
        /\ pc # "column" => PostedColumns = KeptColumns(Excluded)

ExcludedAsStated(col) == col.kind # "real" \/ col.pseudo = "true"

ExcludedAsCoded(col) ==
    (col.kind # NoField /\ col.kind # "real") \/ col.pseudo = "true"

\* C6 as stated: a creation request is sent exactly for the source columns
\* whose kind is "real" and whose pseudo flag is not true, in source order.
C6_Original == ColumnsCloned(ExcludedAsStated)

\* C6: a creation request is sent exactly for the source columns that are
\* not excluded, in the order of the source list, whatever that order is; a
\* column is excluded when it has a kind other than "real" or its pseudo
\* flag is true, and a column without a kind is cloned.
C6_ColumnsClonedInOrder == ColumnsCloned(ExcludedAsCoded)

C6_Witness ==
    /\ pc = "card" /\ Len(sourceColumns) = 2
    /\ sourceColumns[1].pseudo = "true" /\ sourceColumns[1].kind = "real"
    /\ sourceColumns[2].kind = NoField /\ sourceColumns[2].pseudo = "false"
    /\ PostedColumns = << sourceColumns[2].id >>

IsPlacement(c) == c.res = "triage"

\* C7: no two source columns map to the same target column, the mapping has
\* an entry exactly for the real source columns that were created, and a
\* placement request is only sent for a card whose column has an entry.
C7_ColumnMappingOneToOne ==
    /\ \A a, b \in DOMAIN columnMapping :
          a # b => columnMapping[a] # columnMapping[b]
    /\ DOMAIN columnMapping \subseteq
          {sourceColumns[i].id : i \in {j \in DOMAIN sourceColumns :
                                          ~skipColumn(sourceColumns[j])}}
    /\ Cardinality(DOMAIN columnMapping) = stats.columnsCreated
    /\ \A i \in CallsWhere(IsPlacement) :
          \E k \in DOMAIN sourceCards :
             /\ getCardColumnID(sourceCards[k]) \in DOMAIN columnMapping
             /\ calls[i].arg = columnMapping[getCardColumnID(sourceCards[k])]

IsBoardPost(c) == c.res = "boards" /\ c.method = "POST"

\* C8: every request to the source account is a read (a GET, a paged GET
\* or a download), every mutating request goes to the target account, and
\* at most one board is created in a run.
C8_SourceReadOnly ==
    /\ \A i \in DOMAIN calls :
          /\ calls[i].acct = sourceClient
                => calls[i].method \in {"GET", "GETPAGES", "DOWNLOAD"}
          /\ IsMutating(calls[i]) => calls[i].acct = "target"
    /\ Cardinality(CallsWhere(IsBoardPost)) <= 1
    /\ target.boards <= 1

C8_Witness ==
    /\ exit = "success" /\ ~opts.dryRun
    /\ stats.commentsCreated > 0 /\ stats.imagesMigrated > 1
    /\ stats.columnsCreated > 0 /\ stats.stepsCreated > 0

\* C9: the result a dry run hands to its caller gives the number of real
\* source columns as the columns to create and the number of source cards
\* as the cards to migrate.
C9_DryRunReport ==
    opts.dryRun /\ exit = "success" =>
        /\ payload.columns = countRealColumns(sourceColumns)
        /\ payload.cards = Len(sourceCards)

\* the target card created for the card being migrated
LastCard == target.cards[Len(target.cards)]

\* the attachments of the description that migrateInlineAttachments tries
Downloadable(card) ==
    LET atts == parseAttachments(card.description_html)
    IN {atts[i].SGID : i \in {j \in DOMAIN atts : atts[j].DownloadURL # <<>>}}

C10_WarningOnly ==
    /\ cur.attFailed # {} => exit = "" /\ warnings >= Cardinality(cur.attFailed)
    /\ pc = "card_post" /\ opts.includeImages =>
          /\ cur.attOK \cup cur.attFailed = Downloadable(cur.card)
          /\ cur.attOK \cap cur.attFailed = {}
          /\ stats.imagesMigrated = cur.imagesAtStart + Cardinality(cur.attOK)
    /\ cur.newCardNum # 0 => LastCard.source = cur.card.number

FailedSgidKept ==
    /\ LastCard.description.kind = "html"
    /\ cur.attFailed \subseteq sgidsIn(LastCard.description.html)
    /\ cur.attOK \cap sgidsIn(LastCard.description.html) = {}

\* C10 as stated: whenever an attachment of the description fails, its sgid
\* is in the description stored for the target card.
C10_Original ==
    /\ C10_WarningOnly
    /\ cur.newCardNum # 0 /\ cur.attFailed # {} => FailedSgidKept

\* C10: a failed download or upload of an attachment of the description is
\* a warning; every other attachment is still tried, the card is still
\* created, imagesMigrated grows by the number of attachments that
\* succeeded, and, when at least one attachment of the description
\* succeeded, the stored description still holds the sgid of each failed
\* one.
C10_InlineFailureSoft ==
    /\ C10_WarningOnly
    /\ cur.newCardNum # 0 /\ cur.attFailed # {} /\ cur.attOK # {} => FailedSgidKept

C10_Witness ==
    /\ cur.newCardNum # 0 /\ cur.card = RichCard
    /\ cur.attFailed = {"s1"} /\ cur.attOK = {"s2"}
    /\ stats.imagesMigrated = cur.imagesAtStart + 1 /\ warnings = 1

StatisticsKeys == {"board_id", "board_name", "columns_created", "cards_created",
                   "tags_applied", "comments_created", "steps_created",
                   "images_migrated", "card_mapping"}

DryRunKeys == {"dry_run", "board", "columns", "cards", "from_account",
               "to_account"}

\* a run that ends without a fatal error ends in success, whatever the
\* number of warnings, and only a successful run has a payload
SuccessUnlessFatal ==
    /\ pc = "exited" /\ fatal = "" => exit = "success"
    /\ exit = "success" => fatal = "" /\ pc = "exited" /\ DOMAIN payload # {}
    /\ exit # "success" => DOMAIN payload = {}

\* the payload is written once, by the step that ends the run in success
PayloadOnce ==
    /\ DOMAIN payload # {} => payload' = payload
    /\ DOMAIN payload' # {} /\ DOMAIN payload = {}
          => exit' = "success" /\ pc' = "exited"

HasStatistics ==
    /\ StatisticsKeys \subseteq DOMAIN payload
    /\ payload.board_id = stats.targetBoardID
    /\ payload.board_name = stats.targetBoardName
    /\ payload.columns_created = stats.columnsCreated
    /\ payload.cards_created = stats.cardsCreated
    /\ payload.tags_applied = stats.tagsApplied
    /\ payload.comments_created = stats.commentsCreated
    /\ payload.steps_created = stats.stepsCreated
    /\ payload.images_migrated = stats.imagesMigrated
    /\ payload.card_mapping = stats.cardMapping

\* C11 as stated: every run without a fatal error ends with one success
\* payload and that payload holds the migration statistics, in a dry run as
\* in a real run.
C11_Original ==
    /\ [](SuccessUnlessFatal /\ (exit = "success" => HasStatistics))
    /\ [][PayloadOnce]_vars
    /\ <>(pc = "exited")

C11_PayloadShape ==
    /\ SuccessUnlessFatal
    /\ exit = "success" /\ ~opts.dryRun
          => /\ DOMAIN payload = StatisticsKeys \cup {"migrated"}
             /\ HasStatistics
             /\ payload.migrated /\ stats.boardCreated
    /\ exit = "success" /\ opts.dryRun
          => /\ DOMAIN payload = DryRunKeys
             /\ payload.dry_run /\ payload.board = boardName
             /\ payload.cards = Len(sourceCards)
             /\ ~stats.boardCreated

\* C11: every run ends; a run without a fatal error ends in success with
\* one payload, written once, whatever the number of warnings. The payload
\* of a real run holds the statistics of the run (the flag "migrated", the
\* target board id and name, the six counters and the card mapping); the
\* payload of a dry run holds the dry_run flag, the board name, the column
\* and card counts and the two account slugs, and no statistics.
C11_OnePayload ==
    /\ []C11_PayloadShape
    /\ [][PayloadOnce]_vars
    /\ <>(pc = "exited")

C11_Witness ==
    /\ exit = "success" /\ ~opts.dryRun /\ warnings = 2
    /\ payload.cards_created = 1 /\ payload.columns_created = 1
    /\ DOMAIN payload.card_mapping # {}

\* ------------------------------------------------ functions on their own
\* The specifications below run one function of the program on arguments
\* drawn from bounded sets; the command itself does not move.

progVars == << opts, pc, calls, failures, exit, fatal, boardName,
               sourceColumns, sourceCards, stats, columnMapping, colIdx,
               cardIdx, cur, inl, tempFiles, warnings, summary, payload,
               target, accounts, last >>

Idle == Started([token |-> "tok", from |-> SrcSlug, to |-> TgtSlug,
                 includeComments |-> FALSE, includeSteps |-> FALSE,
                 includeImages |-> FALSE, dryRun |-> FALSE], "idle")

\* ---- verifyAccountAccess
MaxAccounts == 2

\* the slugs of two accounts, as the identity endpoint may list them and as
\* the caller may give them
ListedSlugs == {<<"s">>, <<"/", "s">>, <<"t">>, <<"/", "t">>, <<"/", "/", "s">>}
ProvidedSlugs == {<<"s">>, <<"/", "s">>, <<"t">>, <<"/", "t">>}

\* runMigrateBoard only calls verifyAccountAccess with two slugs that are
\* not empty and differ
VerifyInit ==
    /\ Idle
    /\ args \in {a \in [accounts : SeqsUpTo(ListedSlugs, MaxAccounts),
                       source : ProvidedSlugs, target : ProvidedSlugs] :
                   a.source # a.target}
    /\ result = NoResult

\* verifyAccountAccess after a successful identity read
VerifyAccounts ==
    /\ ~result.done
    /\ result' = [done |-> TRUE,
                  foundSource |-> foundAccount(args.accounts, args.source),
                  foundTarget |-> foundAccount(args.accounts, args.target),
                  denied |-> verifyAccountAccess(args.accounts, args.source,
                                                 args.target)]
    /\ UNCHANGED << args, progVars >>

VerifyNext == VerifyAccounts

VerifySpec == VerifyInit /\ [][VerifyNext]_vars

\* the accounts the error of verifyAccountAccess names
NamedInError == IF result.denied = "" THEN {} ELSE {result.denied}

\* C12: the error of the access check names exactly the accounts that are
\* missing from the list: the source, the target, or both.
C12_ErrorNamesMissing ==
    result.done =>
        NamedInError = {a \in {"source", "target"} :
                          \/ a = "source" /\ ~result.foundSource
                          \/ a = "target" /\ ~result.foundTarget}

\* the listed slug and the given slug are equal once a single leading "/"
\* is stripped from each of them, or equal as given
SameAccount(listed, given) ==
    TrimSlash(listed) = TrimSlash(given) \/ listed = given

Listed(given) ==
    \E i \in DOMAIN args.accounts : SameAccount(args.accounts[i], given)

\* C13: an account is found exactly when a listed slug and the given slug
\* are equal after a single leading "/" is stripped from each, or equal as
\* given; the check succeeds exactly when both accounts are found so.
C13_SlugNormalisedBothSides ==
    result.done =>
        /\ result.foundSource <=> Listed(args.source)
        /\ result.foundTarget <=> Listed(args.target)
        /\ result.denied = "" <=> (Listed(args.source) /\ Listed(args.target))

\* ---- parseAttachments
MaxElems == 3

\* pieces of a fragment: text, and attachment elements with or without a
\* filename and with each kind of link
ElementPool ==
    {Text("x")} \cup
    {Att(sg, f, l) : sg \in {"a", "b"}, f \in {"", "f.png"},
                     l \in {"disp", "blob", "blobq", "none"}}

ParseInit ==
    /\ Idle
    /\ args \in SeqsUpTo(ElementPool, MaxElems)
    /\ result = NoResult

\* parseAttachments(html)
ParseFragment ==
    /\ ~result.done
    /\ result' = [done |-> TRUE, attachments |-> parseAttachments(args)]
    /\ UNCHANGED << args, progVars >>

ParseNext == ParseFragment

ParseSpec == ParseInit /\ [][ParseNext]_vars

IsAttachment(el) == el.t = "att"

\* the content of the element holds a link the parser can resolve
HasDownloadLink(el) ==
    \E i \in DOMAIN el.anchors :
        el.anchors[i][3] = DispQuery \/ el.anchors[i][1] = "blob"

HasNeither(el) == IsAttachment(el) /\ el.filename = "" /\ ~HasDownloadLink(el)

Returned(el) == IsAttachment(el) /\ (el.filename # "" \/ HasDownloadLink(el))

MaxAnchors == 3

Hrefs == {<< p, "x", q >> : p \in Paths, q \in Queries}

ResolveInit ==
    /\ Idle
    /\ args \in SeqsUpTo(Hrefs, MaxAnchors)
    /\ result = NoResult

\* parseAttachments, the resolution of the download URL from the content of
\* one element
ResolveURL ==
    /\ ~result.done
    /\ result' = [done |-> TRUE,
                  url |-> resolveDownloadURL([t |-> "att", sgid |-> "",
                                              filename |-> "", anchors |-> args])]
    /\ UNCHANGED << args, progVars >>

ResolveNext == ResolveURL

ResolveSpec == ResolveInit /\ [][ResolveNext]_vars

\* the query of the href contains disposition=attachment
ContainsDisposition(href) ==
    href[3] \in {DispQuery, "?locale=en&disposition=attachment"}

IsBlobPath(href) == href[1] = "blob"

\* C15: an anchor whose query contains disposition=attachment is returned
\* unchanged and is preferred over a storage-blob path; without such an
\* anchor the first storage-blob path is used, with ?disposition=attachment
\* appended when it has no query string and unmodified when it has one.
C15_DownloadURLResolution ==
    result.done =>
        LET d == firstAnchor({i \in DOMAIN args : ContainsDisposition(args[i])})
            b == firstAnchor({i \in DOMAIN args : IsBlobPath(args[i])})
        IN /\ d # 0 => result.url = args[d]
           /\ d = 0 /\ b # 0 /\ args[b][3] = ""
                => result.url = << args[b][1], args[b][2], DispQuery >>
           /\ d = 0 /\ b # 0 /\ args[b][3] # "" => result.url = args[b]

\* ---- the pseudo columns
\* A command-line string is a sequence of characters.
Lower == << "a", "b", "c", "d", "e", "f", "g", "h", "i", "j", "k", "l", "m",
            "n", "o", "p", "q", "r", "s", "t", "u", "v", "w", "x", "y", "z" >>
Upper == << "A", "B", "C", "D", "E", "F", "G", "H", "I", "J", "K", "L", "M",
            "N", "O", "P", "Q", "R", "S", "T", "U", "V", "W", "X", "Y", "Z" >>
Space == {" ", "\t"}

ToLowerChar(c) ==
    IF \E i \in DOMAIN Upper : Upper[i] = c
    THEN Lower[CHOOSE i \in DOMAIN Upper : Upper[i] = c] ELSE c

ToUpperChar(c) ==
    IF \E i \in DOMAIN Lower : Lower[i] = c
    THEN Upper[CHOOSE i \in DOMAIN Lower : Lower[i] = c] ELSE c

ToLower_identity(s) == s

\* strings.ToLower
ToLower(s) == [i \in DOMAIN s |-> ToLowerChar(s[i])]

RECURSIVE TrimLeft(_)
TrimLeft(s) == IF s # <<>> /\ Head(s) \in Space THEN TrimLeft(Tail(s)) ELSE s

RECURSIVE TrimRight(_)
TrimRight(s) ==
    IF s # <<>> /\ s[Len(s)] \in Space THEN TrimRight(SubSeq(s, 1, Len(s) - 1))
    ELSE s

TrimSpace_leftOnly(s) == TrimLeft(s)

\* strings.TrimSpace
TrimSpace(s) == TrimRight(TrimLeft(s))

pseudoColumnNotYet == [ID |-> "not-yet", Name |-> "Not Yet", Kind |-> "triage"]
pseudoColumnMaybe  == [ID |-> "maybe", Name |-> "Maybe?", Kind |-> "not_now"]
pseudoColumnDone   == [ID |-> "done", Name |-> "Done", Kind |-> "closed"]
NoPseudoColumn     == [ID |-> "", Name |-> "", Kind |-> ""]

\* the cases of the switch of parsePseudoColumnID
NotYetCases == { <<"n","o","t","-","y","e","t">>, <<"n","o","t","_","y","e","t">>,
                 <<"n","o","t","y","e","t">>, <<"t","r","i","a","g","e">> }
MaybeCases  == { <<"m","a","y","b","e">>, <<"m","a","y","b","e","?">>,
                 <<"n","o","t","-","n","o","w">>, <<"n","o","t","_","n","o","w">>,
                 <<"n","o","t","n","o","w">> }
DoneCases   == { <<"d","o","n","e">>, <<"c","l","o","s","e","d">>,
                 <<"c","l","o","s","e">> }

\* parsePseudoColumnID
parsePseudoColumnID(id) ==
    LET key == ToLower(TrimSpace(id)) IN
    CASE key \in NotYetCases -> [column |-> pseudoColumnNotYet, ok |-> TRUE]
      [] key \in MaybeCases  -> [column |-> pseudoColumnMaybe, ok |-> TRUE]
      [] key \in DoneCases   -> [column |-> pseudoColumnDone, ok |-> TRUE]
      [] OTHER               -> [column |-> NoPseudoColumn, ok |-> FALSE]

\* number of whitespace characters on each side of an identifier
MaxPad == 2

\* identifiers that are no alias: empty, a column id, a space inside, one
\* character more or less than an alias
OtherWords == { <<>>, <<"c","1">>, <<"n","o","t"," ","y","e","t">>,
                <<"m","a","y","b","e","s">>, <<"d","o","n">>,
                <<"r","e","a","l">>, <<"n","o","t","-","n","o","w","?">> }

Words == NotYetCases \cup MaybeCases \cup DoneCases \cup OtherWords

\* a word in lower case, in upper case, capitalised, or with every second
\* letter in upper case
Cased(w, how) ==
    [i \in DOMAIN w |->
        CASE how = "upper" -> ToUpperChar(w[i])
          [] how = "title" -> IF i = 1 THEN ToUpperChar(w[i]) ELSE w[i]
          [] how = "mixed" -> IF i % 2 = 0 THEN ToUpperChar(w[i]) ELSE w[i]
          [] OTHER         -> w[i]]

Identifiers ==
    {[word |-> w, text |-> l \o Cased(w, how) \o r] :
        w \in Words, how \in {"lower", "upper", "title", "mixed"},
        l \in SeqsUpTo(Space, MaxPad), r \in SeqsUpTo(Space, MaxPad)}

PseudoInit ==
    /\ Idle
    /\ args \in Identifiers
    /\ result = NoResult

\* parsePseudoColumnID(id)
ParsePseudo ==
    /\ ~result.done
    /\ result' = [done |-> TRUE, parsed |-> parsePseudoColumnID(args.text)]
    /\ UNCHANGED << args, progVars >>

PseudoNext == ParsePseudo

PseudoSpec == PseudoInit /\ [][PseudoNext]_vars

pseudoColumnNotNow == [ID |-> "not-yet", Name |-> "Not Yet", Kind |-> "triage"]

\* pseudoColumnObject
pseudoColumnObject(c) ==
    [id |-> c.ID, name |-> c.Name, kind |-> c.Kind, pseudo |-> "true"]

MaxListed == 3

\* the columns of a board as the server lists them
ServerColumns ==
    {[id |-> i, name |-> i, kind |-> "real", pseudo |-> "false"] :
        i \in {"c1", "c2", "c3", "c4"}}

\* replies of GET /boards/<id>/columns.json: an error, a body that is not an
\* array, or the array of the columns
ColumnReplies ==
    {[reply |-> "error", data |-> <<>>], [reply |-> "object", data |-> <<>>]}
    \cup {[reply |-> "array", data |-> d] : d \in SeqsUpTo(ServerColumns, MaxListed)}

columnList_lanesFirst(data) ==
    << pseudoColumnObject(pseudoColumnNotNow), pseudoColumnObject(pseudoColumnMaybe),
       pseudoColumnObject(pseudoColumnDone) >> \o data

\* columnListCmd, the list built around the server's columns
columnList(data) ==
    << pseudoColumnObject(pseudoColumnNotNow), pseudoColumnObject(pseudoColumnMaybe) >>
    \o data \o << pseudoColumnObject(pseudoColumnDone) >>

ColumnListInit ==
    /\ Idle
    /\ args \in ColumnReplies
    /\ result = NoResult

\* columnListCmd
ColumnList ==
    /\ ~result.done
    /\ result' =
         CASE args.reply = "error"  -> [done |-> TRUE, exit |-> "error", cols |-> <<>>]
           [] args.reply = "object" -> [done |-> TRUE, exit |-> "raw", cols |-> <<>>]
           [] OTHER -> [done |-> TRUE, exit |-> "success",
                        cols |-> columnList(args.data)]
    /\ UNCHANGED << args, progVars >>

ColumnListNext == ColumnList

ColumnListSpec == ColumnListInit /\ [][ColumnListNext]_vars

LanesOfKind(cols, k) ==
    {i \in DOMAIN cols : cols[i].pseudo = "true" /\ cols[i].kind = k}

MaxStore == 4

\* cards of the account: in triage (open, no column), open in a column
\* (given as column_id or as a nested column object), closed, postponed
StoredCards ==
    << [number |-> 1, column_id |-> <<>>, column |-> <<>>, lane |-> "open"],
       [number |-> 2, column_id |-> <<"c", "1">>, column |-> <<>>, lane |-> "open"],
       [number |-> 3, column_id |-> <<>>, column |-> <<"c", "1">>, lane |-> "open"],
       [number |-> 4, column_id |-> <<"c", "1">>, column |-> <<>>, lane |-> "closed"],
       [number |-> 5, column_id |-> <<>>, column |-> <<>>, lane |-> "not_now"],
       [number |-> 6, column_id |-> <<>>, column |-> <<>>, lane |-> "open"] >>

\* the account holds some of these cards
Stores ==
    {s \in SUBSET DOMAIN StoredCards : Cardinality(s) <= MaxStore}

RECURSIVE CardsOf(_, _)
CardsOf(store, i) ==
    IF i > Len(StoredCards) THEN <<>>
    ELSE (IF i \in store THEN << StoredCards[i] >> ELSE <<>>) \o CardsOf(store, i + 1)

\* what GET /cards.json returns for a value of indexed_by: without it the
\* open cards, in triage or in any column; with closed the closed cards;
\* with not_now the postponed cards; nothing for an index no card is in
serverCards(store, indexedBy) ==
    LET InLane(c) == c.lane = (IF indexedBy = "" THEN "open" ELSE indexedBy)
    IN SelectSeq(CardsOf(store, 1), InLane)

\* values of --column: none, aliases of the three lanes, a column id
ColumnFlags ==
    { <<>>, <<"m","a","y","b","e">>, <<"d","o","n","e">>,
      <<"n","o","t","-","n","o","w">>, <<"n","o","t","-","y","e","t">>,
      <<"c","1">>, <<" ","D","o","n","e">> }

IndexedByFlags == {"", "closed", "not_now", "golden"}

CardListInit ==
    /\ Idle
    /\ args \in [column : ColumnFlags, indexedBy : IndexedByFlags,
                 all : BOOLEAN, page : {0, 1}, store : Stores]
    /\ result = NoResult

\* cardListCmd, the column id of a fetched card
listedColumnID(card) ==
    IF card.column_id # <<>> THEN card.column_id ELSE card.column

\* cardListCmd: how --column and --indexed-by combine
cardListFilters(a) ==
    LET columnFilter == TrimSpace(a.column)
        pseudo == parsePseudoColumnID(columnFilter)
        plain == [invalid |-> FALSE, indexedBy |-> a.indexedBy,
                  triage |-> FALSE, column |-> <<>>]
    IN IF columnFilter = <<>> THEN plain
       ELSE IF pseudo.ok
       THEN CASE pseudo.column.Kind = "not_now" ->
                   [plain EXCEPT !.invalid = a.indexedBy \notin {"", "not_now"},
                                 !.indexedBy = "not_now"]
              [] pseudo.column.Kind = "closed" ->
                   [plain EXCEPT !.invalid = a.indexedBy \notin {"", "closed"},
                                 !.indexedBy = "closed"]
              [] pseudo.column.Kind = "triage" ->
                   [plain EXCEPT !.invalid = a.indexedBy # "", !.triage = TRUE]
              [] OTHER -> [plain EXCEPT !.column = columnFilter]
       ELSE [plain EXCEPT !.invalid = a.indexedBy # "", !.column = columnFilter]

\* cardListCmd
cardList(a) ==
    LET f == cardListFilters(a)
        clientSide == f.triage \/ f.column # <<>>
        fetched == serverCards(a.store, f.indexedBy)
        Keep(card) == IF f.triage THEN listedColumnID(card) = <<>>
                      ELSE listedColumnID(card) = f.column
    IN IF f.invalid \/ (clientSide /\ ~a.all /\ a.page = 0)
       THEN [exit |-> "invalid_args", indexedBy |-> "", cards |-> <<>>]
       ELSE [exit |-> "success", indexedBy |-> f.indexedBy,
             cards |-> IF clientSide THEN SelectSeq(fetched, Keep) ELSE fetched]

CardList ==
    /\ ~result.done
    /\ result' = [done |-> TRUE, out |-> cardList(args)]
    /\ UNCHANGED << args, progVars >>

CardListNext == CardList

CardListSpec == CardListInit /\ [][CardListNext]_vars

ColumnFlagIs(word) == ToLower(TrimSpace(args.column)) = word

InTriage(card) == card.column_id = <<>> /\ card.column = <<>>

\* C18: --column maybe with --all lists exactly the fetched cards that have
\* no column (the cards in triage); --column done lists what --indexed-by
\* closed lists; --column not-now lists what --indexed-by not_now lists.
C18_PseudoColumnFilters ==
    result.done /\ args.indexedBy = "" /\ args.all =>
        /\ ColumnFlagIs(<<"m","a","y","b","e">>)
             => /\ result.out.exit = "success"
                /\ result.out.cards = SelectSeq(serverCards(args.store, ""), InTriage)
        /\ ColumnFlagIs(<<"d","o","n","e">>)
             => result.out = cardList([args EXCEPT !.column = <<>>,
                                                   !.indexedBy = "closed"])
        /\ ColumnFlagIs(<<"n","o","t","-","n","o","w">>)
             => result.out = cardList([args EXCEPT !.column = <<>>,
                                                   !.indexedBy = "not_now"])

\* ------------------------------------------------------------------
\* C19  migrate board rejects its arguments as its first step, before a
\* client exists and before any request: with the invalid-arguments code
\* when --from is empty, when --to is empty or when --from equals --to,
\* with the authentication-failure code when no token is configured.
\* Where several of the conditions hold the code is that of one of them.
RejectionCodes ==
    (IF opts.token = "" THEN {"auth_failure"} ELSE {})
    \cup (IF opts.from = <<>> \/ opts.to = <<>> \/ opts.from = opts.to
          THEN {"invalid_args"} ELSE {})

RejectedFirst ==
    (pc = "validate" /\ RejectionCodes # {})
        => /\ pc' = "exited"
           /\ exit' \in RejectionCodes
           /\ calls' = <<>>

StaysRejected ==
    (pc # "validate" /\ RejectionCodes # {})
        => /\ pc = "exited"
           /\ exit \in RejectionCodes
           /\ calls = <<>>
           /\ DOMAIN payload = {}

C19_RejectsBeforeClients == []StaysRejected /\ [][RejectedFirst]_vars

C19_Witness ==
    /\ pc = "exited"
    /\ exit = "invalid_args"
    /\ fatal = "same"
    /\ opts.from = opts.to
    /\ opts.from # <<>>
    /\ calls = <<>>

\* ------------------------------------------------------------------
\* C20  No card's column-placement call is issued before the loop that
\* creates the columns has finished for all source columns, and the column
\* mapping is never modified once the first card has started migrating.
PlacementAfterColumns ==
    \A i \in DOMAIN calls :
       IsPlacement(calls[i])
          => /\ colIdx > Len(sourceColumns)
             /\ \A j \in DOMAIN calls : IsColumnPost(calls[j]) => j < i

CardsStarted == cardIdx >= 1

MappingFrozen == CardsStarted => columnMapping' = columnMapping

C20_ColumnsBeforeCards == []PlacementAfterColumns /\ [][MappingFrozen]_vars

C20_Witness ==
    /\ pc = "exited"
    /\ Len(PostedColumns) = MaxCols
    /\ Cardinality(DOMAIN columnMapping) = 1
    /\ \E i \in DOMAIN calls : IsPlacement(calls[i])
    /\ stats.cardsCreated = MaxCards

\* ------------------------------------------------------------------
\* C21  For each source card, every tag, column-placement, closure,
\* golden, comment, step and header-image call made for it is issued only
\* after its target card has been created and its new number is known, and
\* addresses that new number, never the source number and never 0.
IsCardPost(c) == c.res = "card" /\ c.method = "POST"

IsDependentCall(c) ==
    \/ c.res \in {"tagging", "triage", "closure", "goldness", "comment",
                  "step", "image"}
    \/ c.res = "card" /\ c.method = "PATCH"

\* the position of the last card creation request before position i, or 0
CreationBefore(i) ==
    LET before == {j \in 1..(i - 1) : IsCardPost(calls[j])}
    IN IF before = {} THEN 0 ELSE CHOOSE j \in before : \A k \in before : k <= j

C21_DependentsAddressNewNumber ==
    \A i \in DOMAIN calls :
       IsDependentCall(calls[i]) =>
          LET j == CreationBefore(i) IN
          /\ j # 0
          /\ calls[i].card # 0
          /\ calls[i].card # calls[j].item
          /\ \E k \in ReadCards :
                /\ target.cards[k].source = calls[j].item
                /\ target.cards[k].read = target.cards[k].number
                /\ calls[i].card = target.cards[k].number

C21_Witness ==
    /\ pc = "exited"
    /\ Len(target.cards) = 2
    /\ Cardinality(ReadCards) = 1
    /\ \A res \in {"tagging", "triage", "closure", "goldness", "comment",
                   "step", "image"} :
          \E i \in DOMAIN calls : calls[i].res = res
    /\ \E i \in DOMAIN calls : calls[i].res = "card" /\ calls[i].method = "PATCH"

\* ------------------------------------------------------------------
\* the place of a position of the program in the sequence of the steps of
\* one card, 0 outside the migration of a card; createFirst puts the
\* creation of the card before the inline attachments of the description
StepRank(p, ctx, createFirst) ==
    IF p \in {"inl_download", "inl_upload", "inl_return"}
    THEN (IF ctx = "desc" THEN (IF createFirst THEN 2 ELSE 1) ELSE 7)
    ELSE IF p = "card_post" THEN (IF createFirst THEN 1 ELSE 2)
    ELSE IF p = "tag" THEN 3
    ELSE IF p = "place" THEN 4
    ELSE IF p = "close" THEN 5
    ELSE IF p = "golden" THEN 6
    ELSE IF p \in {"comments", "cmt_item", "cmt_post"} THEN 7
    ELSE IF p = "steps" THEN 8
    ELSE IF p \in {"image", "img_upload", "img_patch"} THEN 9
    ELSE IF p = "record" THEN 10
    ELSE 0

\* one step of the program keeps the order of the steps of a card: within a
\* card the rank never decreases, a card starts at the head of the sequence
\* with the next card of the fetched list, and the card-mapping entry is
\* written by the last step only
StepsInOrder(createFirst) ==
    LET a == StepRank(pc, inl.ctx, createFirst)
        b == StepRank(pc', inl'.ctx, createFirst)
    IN /\ a > 0 /\ b > 0 => a <= b /\ cardIdx' = cardIdx /\ cur'.card = cur.card
       /\ a = 0 /\ b > 0 => /\ b <= 2
                            /\ cardIdx' = cardIdx
                            /\ cur'.card = sourceCards[cardIdx]
       /\ a > 0 /\ b = 0 => /\ pc' = "card"
                            /\ cardIdx' = cardIdx + 1
                            /\ a \in {StepRank("card_post", "", createFirst), 10}
       /\ stats'.cardMapping # stats.cardMapping => a = 10
       /\ stats'.cardsCreated # stats.cardsCreated => a = 10

\* C22 as stated: the target card is created first and the inline
\* attachments of the description are migrated after it.
C22_Original == [][StepsInOrder(TRUE)]_vars

\* C22  For each source card, taken in fetch order, the steps run in this
\* order and never go back: inline-attachment migration of the description
\* (if requested), then create target card, then tags, then column
\* placement, then closing, then golden, then comments (if requested), then
\* steps (if requested), then header image (if requested), then recording
\* the card-mapping entry.
C22_StepOrder == [][StepsInOrder(FALSE)]_vars

C22_Witness ==
    /\ pc = "record"
    /\ cardIdx = 2
    /\ cur.card = RichCard
    /\ cur.attOK # {}
    /\ opts.includeComments /\ opts.includeSteps /\ opts.includeImages
    /\ \A res \in {"tagging", "triage", "closure", "goldness", "comment", "step"} :
          \E i \in DOMAIN calls :
             calls[i].res = res /\ calls[i].card = cur.newCardNum
    /\ \E i \in DOMAIN calls :
          /\ calls[i].method = "PATCH"
          /\ calls[i].card = cur.newCardNum

\* ---- migrateInlineAttachments
\* the call of migrateInlineAttachments on a fragment: parseAttachments and
\* the head of the loop
InlineCall ==
    /\ pc = "idle"
    /\ ~result.done
    /\ LET start == inlineStart("call", args)
       IN pc' = start.pc /\ inl' = start.inl
    /\ UNCHANGED << args, result, opts, calls, failures, exit, fatal, boardName,
                    sourceColumns, sourceCards, stats, columnMapping, colIdx,
                    cardIdx, cur, tempFiles, warnings, summary, payload,
                    target, accounts, last >>

\* return result, migratedCount, nil
InlineFinish ==
    /\ pc = "inl_return"
    /\ inl.ctx = "call"
    /\ result' = [done |-> TRUE, html |-> inl.result, count |-> inl.migratedCount]
    /\ pc' = "idle"
    /\ inl' = NoInl
    /\ UNCHANGED << args, opts, calls, failures, exit, fatal, boardName,
                    sourceColumns, sourceCards, stats, columnMapping, colIdx,
                    cardIdx, cur, tempFiles, warnings, summary, payload,
                    target, accounts, last >>

InlineInit ==
    /\ Idle
    /\ args \in SeqsUpTo(ElementPool, MaxElems)
    /\ result = NoResult

InlineNext ==
    \/ InlineCall
    \/ InlineDownload
    \/ InlineUpload
    \/ InlineFinish

InlineSpec == InlineInit /\ [][InlineNext]_vars

\* the position in the fragment of the element of the attachment with this
\* index
ElementOf(html, index) ==
    LET kept == {i \in DOMAIN html : Returned(html[i])}
    IN CHOOSE i \in kept : Cardinality({j \in kept : j <= i}) = index

\* a successful transfer puts the new sgid in place of the old one in the
\* element of the attachment and changes nothing else; every other step of
\* the function leaves the HTML as it is
ReplacesOwnSgid ==
    pc \in {"inl_download", "inl_upload"} =>
       LET a == inl.attachments[inl.idx]
           own == ElementOf(args, a.Index)
       IN IF inl'.migratedCount # inl.migratedCount
          THEN /\ inl'.migratedCount = inl.migratedCount + 1
               /\ last'.ok
               /\ inl.result[own].sgid = a.SGID
               /\ inl'.result[own].sgid \notin sgidsIn(args)
               /\ inl'.result = [inl.result EXCEPT ![own].sgid = inl'.result[own].sgid]
          ELSE inl'.result = inl.result

UnchangedWithoutAttachments ==
    result.done =>
        /\ Len(result.html) = Len(args)
        /\ parseAttachments(args) = <<>> => result.html = args /\ result.count = 0

\* C23: migrateInlineAttachments replaces, for each attachment it uploaded
\* again, the old sgid of that attachment's own element by the new sgid,
\* once, and leaves the rest of the HTML unchanged, the sgids of the other
\* attachments and of the failed ones included; HTML without attachments is
\* returned unchanged with count 0.
C23_ReplacesOwnSgidOnly ==
    []UnchangedWithoutAttachments /\ [][ReplacesOwnSgid]_vars

\* ------------------------------------------------------------------
\* C24  After the header-image sub-step or the transfer of one inline
\* attachment ends, by success, by warning or by error, the temporary file
\* this sub-step created no longer exists: a temporary file exists only
\* between the download and the end of the sub-step that made it.
C24_TempFilesRemoved ==
    /\ pc = "inl_upload" => tempFiles = {InlineTempFile}
    /\ pc \in {"img_upload", "img_patch"} => tempFiles = {ImageTempFile}
    /\ pc \notin {"inl_upload", "img_upload", "img_patch"} => tempFiles = {}

C24_Witness ==
    /\ pc = "record"
    /\ tempFiles = {}
    /\ last = [step |-> "image", ok |-> FALSE]
    /\ calls[Len(calls)].method = "PATCH"
    /\ \E i \in DOMAIN calls :
          /\ calls[i].res = "file"
          /\ calls[i].method = "UPLOAD"

\* ------------------------------------------------------------------
\* the requests of one kind sent so far
Requests(method, res) ==
    {i \in DOMAIN calls : calls[i].method = method /\ calls[i].res = res}

\* the source card whose target card was given this number
SourceOf(num) ==
    CHOOSE card \in Range(sourceCards) :
       \E k \in DOMAIN target.cards :
          target.cards[k].read = num /\ target.cards[k].source = card.number

\* the item a request is about exists in the source, at the place the
\* request names
AboutSourceItem(c) ==
    /\ IsColumnPost(c) =>
          \E k \in DOMAIN sourceColumns :
             ~skipColumn(sourceColumns[k]) /\ sourceColumns[k].id = c.arg
    /\ IsCardPost(c) => \E k \in DOMAIN sourceCards : sourceCards[k].number = c.item
    /\ c.res = "tagging" =>
          c.item \in DOMAIN SourceOf(c.card).tags /\ c.arg = SourceOf(c.card).tags[c.item]
    /\ c.res = "comment" => c.item \in DOMAIN SourceOf(c.card).comments
    /\ c.res = "step" =>
          c.item \in DOMAIN SourceOf(c.card).steps
          /\ c.arg = SourceOf(c.card).steps[c.item].content
    /\ c.res = "image" => c.arg = SourceOf(c.card).image_url
    /\ c.res = "file" =>
          \E k \in DOMAIN sourceCards :
             \/ c.arg \in sgidsIn(sourceCards[k].description_html)
             \/ \E n \in DOMAIN sourceCards[k].comments :
                   c.arg \in sgidsIn(sourceCards[k].comments[n].html)

\* C25  Nothing is retried: in one run each real source column gets at most
\* one creation request, each source card at most one card-creation
\* request, and each tag, comment, step and attachment at most one request
\* of its kind, whether that request succeeded or failed: no request is
\* sent twice, and every request is about one item of the source.
C25_NothingRetried ==
    /\ Cardinality(Range(calls)) = Len(calls)
    /\ \A i \in DOMAIN calls : AboutSourceItem(calls[i])

C25_Witness ==
    /\ pc = "exited"
    /\ failures = MaxFailures
    /\ warnings = MaxFailures
    /\ Len(sourceCards) = MaxCards
    /\ Cardinality(Requests("POST", "card")) = MaxCards
    /\ Cardinality(Requests("POST", "comment")) = 1
    /\ last = [step |-> "comment", ok |-> FALSE]

\* ------------------------------------------------------------------
\* a step taken for a card whose target card does not exist (yet) leaves
\* the statistics alone, and when the creation fails imagesMigrated is what
\* it was when the card was started
NoStatsBeforeCreation ==
    /\ (cur.newCardNum = 0 /\ StepRank(pc, inl.ctx, FALSE) \in {1, 2})
          => [stats' EXCEPT !.imagesMigrated = 0] = [stats EXCEPT !.imagesMigrated = 0]
    /\ (pc = "card_post" /\ pc' = "card")
          => stats' = stats /\ stats.imagesMigrated = cur.imagesAtStart

\* C26: if the creation of the target card fails for a source card (the
\* request fails or no new number can be read), no field of the statistics
\* changes because of that card: cardsCreated, tagsApplied, commentsCreated,
\* stepsCreated, imagesMigrated and the card mapping are what they were
\* before the card was attempted.
C26_FailedCardLeavesStats == [][NoStatsBeforeCreation]_vars

\* ------------------------------------------------------------------
\* C27  For every source column list, the number of columns a dry run
\* announces as to be created (countRealColumns) equals the number of
\* column-creation requests a real run issues for the same list.
C27_DryRunCountIsRealCount ==
    /\ (opts.dryRun /\ exit = "success")
          => summary.columnsToCreate = countRealColumns(sourceColumns)
    /\ (~opts.dryRun /\ stats.boardCreated /\ pc # "column")
          => Cardinality(Requests("POST", "column")) = countRealColumns(sourceColumns)

C27_Witness ==
    /\ ~opts.dryRun
    /\ pc = "exited"
    /\ Len(sourceColumns) = MaxCols
    /\ sourceColumns[1].pseudo = "true"
    /\ sourceColumns[2].kind = NoField
    /\ Cardinality(Requests("POST", "column")) = 1
    /\ stats.columnsCreated = 0

\* ------------------------------------------------------------------
\* C28  Optional features are gated by their flags: without include-images
\* a run issues no download, no upload and no image update; without
\* include-comments it neither reads source comments nor creates target
\* comments; without include-steps it creates no steps; and the matching
\* counter (imagesMigrated, commentsCreated, stepsCreated) stays 0.
C28_FlagsGateFeatures ==
    /\ ~opts.includeImages =>
          /\ \A i \in DOMAIN calls :
                calls[i].method \notin {"DOWNLOAD", "UPLOAD", "PATCH"}
          /\ stats.imagesMigrated = 0
          /\ tempFiles = {}
    /\ ~opts.includeComments =>
          /\ \A i \in DOMAIN calls : calls[i].res \notin {"comments", "comment"}
          /\ stats.commentsCreated = 0
    /\ ~opts.includeSteps =>
          /\ \A i \in DOMAIN calls : calls[i].res # "step"
          /\ stats.stepsCreated = 0

C28_Witness ==
    /\ exit = "success"
    /\ ~opts.dryRun
    /\ ~opts.includeImages /\ ~opts.includeComments /\ opts.includeSteps
    /\ sourceCards = << RichCard, OddCard >>
    /\ stats.cardsCreated = 2
    /\ stats.stepsCreated = 2

\* ------------------------------------------------------------------
\* C29  Every value stored in the column mapping is a non-empty column id
\* obtained from the target, columnsCreated counts only columns for which
\* such an id was obtained, and a column-placement call never carries an
\* empty column id.
C29_MappedColumnIdsNonEmpty ==
    /\ \A id \in DOMAIN columnMapping :
          /\ columnMapping[id] # ""
          /\ columnMapping[id] \in Range(TargetColIDs)
    /\ stats.columnsCreated =
          Cardinality({id \in DOMAIN columnMapping : columnMapping[id] # ""})
    /\ \A i \in DOMAIN calls : IsPlacement(calls[i]) => calls[i].arg # ""

\* ------------------------------------------------------------------
\* the elements of a body whose sgid was given by the target
Substituted(html) == {i \in DOMAIN html : html[i].sgid \in Range(NewBlobIDs)}

\* what one step adds to imagesMigrated: the substitutions made in the
\* description when its inline migration returns, 1 when the header image
\* of a card has been set, nothing otherwise
ImagesCounted ==
    stats'.imagesMigrated = stats.imagesMigrated +
       (IF pc = "inl_return" /\ inl.ctx = "desc"
        THEN Cardinality(Substituted(inl.result))
        ELSE IF pc = "img_patch" /\ last'.ok THEN 1
        ELSE 0)

\* while a comment body is migrated imagesMigrated does not move
CommentsNotCounted ==
    inl.ctx = "comment" => stats'.imagesMigrated = stats.imagesMigrated

\* C30  imagesMigrated is the number of inline attachments substituted in
\* card descriptions plus the number of header images set on target cards:
\* it starts at 0 and each step adds to it exactly what it substituted in a
\* description or the header image it set; inline attachments uploaded while
\* comment bodies are migrated never change it.
C30_ImagesMigratedCount ==
    /\ [](calls = <<>> => stats.imagesMigrated = 0)
    /\ [][ImagesCounted /\ CommentsNotCounted]_vars

C30_Witness ==
    /\ exit = "success"
    /\ sourceCards = << RichCard >>
    /\ opts.includeImages /\ opts.includeComments
    /\ stats.imagesMigrated = 3
    /\ stats.commentsCreated = 1
    /\ target.uploads = 4
    /\ \E i \in DOMAIN calls :
          calls[i].method = "UPLOAD" /\ calls[i].arg = "s3"

====
